---- MODULE Spec2Model ----
(***************************************************************************)
(* A model of the dslx-llm evaluation harness (eval.py and its helpers).   *)
(*                                                                         *)
(* Text is a sequence of tokens.  Four tokens are interpreted: FENCE (the   *)
(* three backticks), NL (a line feed), CR (a carriage return) and SP (a    *)
(* blank).  Every other token is an opaque run of characters holding no    *)
(* backtick, no blank and no line boundary, except for the tokens of fixed *)
(* messages and phrases (a directive head, the import statement), which   *)
(* are never split.                                                        *)
(***************************************************************************)
EXTENDS Integers, Sequences, FiniteSets, TLC

VARIABLES
    cfg,                            \* the arguments of evaluate_sample
    sample,                         \* the parsed Sample
    pc,                             \* position inside evaluate_sample
    attempt,                        \* the loop variable of the retry loop
    feedback_from_last_iteration,   \* Optional[str]
    generated_code,                 \* the candidate of the current attempt
    all_generated,                  \* list of all candidates so far
    run_result,                     \* Optional RunResult (last toolchain run)
    critic_result,                  \* Optional CriticResult (last critic run)
    messages,                       \* codegen.messages, the conversation
    critic_messages,                \* run_critic's local conversation
    critic_attempt,                 \* run_critic's loop variable
    last_text,                      \* run_critic's last reply
    files,                          \* names of the files written in tmpdir
    full_code,                      \* Optional[str]: the program file last written
    result,                         \* Optional EvaluateSampleResult
    exception,                      \* the exception that left evaluate_sample
    history,                        \* observer: one record per attempt
    calls,                          \* observer: the external calls, in order
    main_pc,                        \* position inside main
    sample_files,                   \* main: the samples to evaluate, in order
    results,                        \* main: the results recorded so far
    scorecard,                      \* main: the scorecard lines printed
    call_text,                      \* the argument of a direct strip_fences call
    call_result,                    \* what that call returned or raised
    dir_texts,                      \* the texts of a direct directive extraction
    dir_call,                       \* the last directive operation applied to them
    tmp,                            \* the compat TemporaryDirectory object and its directory
    gen,                            \* generate_tests: its arguments, position and output file
    v2x                             \* v2x main: its options, position and attempts

vars == <<cfg, sample, pc, attempt, feedback_from_last_iteration,
          generated_code, all_generated, run_result, critic_result, messages,
          critic_messages, critic_attempt, last_text, files, full_code, result,
          exception, history, calls,
          main_pc, sample_files, results, scorecard, call_text, call_result, dir_texts, dir_call, tmp, gen, v2x>>

\* The variables of main and of the direct calls of the helpers, which
\* evaluate_sample does not touch.
outer_vars == <<main_pc, sample_files, results, scorecard, call_text, call_result, dir_texts, dir_call, tmp, gen, v2x>>

----------------------------------------------------------------------------
(* Bounds of the model. *)

\* Largest value of --max-retries that is explored.
MaxRetries == 3
\* Smallest value of --max-retries that is explored is -MinRetriesBelow.
MinRetriesBelow == 1
\* Largest number of sample files in one batch.
BatchSize == 2
\* Longest free text handed to strip_fences.
MaxTextLen == 4
\* Longest body of a fenced text handed to strip_fences.
MaxBodyLen == 3

\* Most lines of a code text handed to the directive operations.
MaxLines == 3

----------------------------------------------------------------------------
(* Text. *)

\* The fence delimiter: three backticks.
FENCE == "<fence>"
NL == "\n"
CR == "\r"
SP == " "

\* Variant: only the blank counts as whitespace.
IsSpace_BlankOnly(tok) == tok = SP

IsSpace(tok) == tok \in {NL, CR, SP}

\* Optional[T]: None, or Some(v).
None == [some |-> FALSE, v |-> <<>>]
Some(t) == [some |-> TRUE, v |-> t]

\* Python truthiness of an Optional[str]: not None and not empty.
Truthy(opt) == opt.some /\ opt.v # <<>>

RECURSIVE LStrip(_)
LStrip(t) ==
    IF t # <<>> /\ IsSpace(Head(t)) THEN LStrip(Tail(t)) ELSE t

RECURSIVE RStrip(_)
RStrip(t) ==
    IF t # <<>> /\ IsSpace(t[Len(t)]) THEN RStrip(SubSeq(t, 1, Len(t) - 1)) ELSE t

\* str.strip()
Strip(t) == RStrip(LStrip(t))

\* str.startswith(FENCE)
StartsWithFence(t) == t # <<>> /\ Head(t) = FENCE

\* Positions of the line boundaries of t.
Breaks(t) == {i \in 1..Len(t) : t[i] \in {NL, CR}}

RECURSIVE SplitFrom(_, _)
SplitFrom(t, start) ==
    IF start > Len(t) THEN <<>>
    ELSE LET later == {i \in Breaks(t) : i >= start}
         IN  IF later = {} THEN <<SubSeq(t, start, Len(t))>>
             ELSE LET b == CHOOSE i \in later : \A j \in later : i <= j
                      \* a carriage return and the line feed after it are one boundary
                      after == IF t[b] = CR /\ b < Len(t) /\ t[b + 1] = NL THEN b + 2 ELSE b + 1
                  IN  <<SubSeq(t, start, b - 1)>> \o SplitFrom(t, after)

\* str.splitlines(): the lines without their line boundaries; a final line
\* boundary opens no further line, and the empty text has no line.
SplitLines(t) == SplitFrom(t, 1)

RECURSIVE JoinLines(_)
\* '\n'.join(lines)
JoinLines(lines) ==
    IF lines = <<>> THEN <<>>
    ELSE IF Len(lines) = 1 THEN lines[1]
    ELSE lines[1] \o <<NL>> \o JoinLines(Tail(lines))

MissingClosingFence == <<"Missing closing <fence> fence in code block.">>
SolelyOpeningFence == <<"Code block consists solely of an opening <fence> fence.">>

\* Variant: str.startswith, a line that begins with the fence delimiter.
Closers_StartsWith(lines) == {i \in 1..Len(lines) : lines[i] # <<>> /\ Head(lines[i]) = FENCE}

\* The lines that are exactly the fence delimiter.
Closers(lines) == {i \in 1..Len(lines) : lines[i] = <<FENCE>>}

\* Variant: lines.index, the first such line.
ClosingLine_First(lines) == CHOOSE i \in Closers(lines) : \A j \in Closers(lines) : i <= j

\* len(lines) - 1 - lines[::-1].index(FENCE): the last such line (1-based).
ClosingLine(lines) == CHOOSE i \in Closers(lines) : \A j \in Closers(lines) : j <= i

\* Variant: the closing line right after the opening line counts as well.
OnlyOpening_OrNext(closing_index) == closing_index <= 1

\* if closing_index == 0: the last fence line is the opening line itself.
OnlyOpening(closing_index) == closing_index = 0

\* strip_fences: [ok |-> TRUE, value |-> payload], or
\* [ok |-> FALSE, error |-> the message of the ValueError raised].
strip_fences(text) ==
    LET t == Strip(text)
        lines == SplitLines(t)
        closers == Closers(lines)
        \* closing_index is 0-based; last is its 1-based position
        last == ClosingLine(lines)
    IN  IF ~StartsWithFence(t) THEN [ok |-> TRUE, value |-> t, error |-> <<>>]
        ELSE IF closers = {} THEN [ok |-> FALSE, value |-> <<>>, error |-> MissingClosingFence]
        ELSE IF OnlyOpening(last - 1) THEN [ok |-> FALSE, value |-> <<>>, error |-> SolelyOpeningFence]
        ELSE [ok |-> TRUE, value |-> JoinLines(SubSeq(lines, 2, last - 1)), error |-> <<>>]

----------------------------------------------------------------------------
(* Directive extraction (eval.py). *)

\* The head of a directive line, "// dslx_run_flags:" or
\* "// dslx_run_options:", is one token.
DirectiveHeads == {"// dslx_run_flags:", "// dslx_run_options:"}

\* The opaque tokens that start with two dashes.
DashTokens == {"--warnings_as_errors=false", "--a=1", "--b=2"}

\* _DSLX_RUN_FLAGS_RE.match(line): leading blanks, then the directive head.
IsDirectiveLine(line) == LStrip(line) # <<>> /\ Head(LStrip(line)) \in DirectiveHeads

\* m.group(1).strip(): what follows the head, without surrounding blanks.
DirectiveArgs(line) == Strip(Tail(LStrip(line)))

\* shlex.split: the blank-separated words.
ShlexSplit(t) == SelectSeq(t, LAMBDA tok : ~IsSpace(tok))

RECURSIVE Dedup_KeepLast(_, _)
\* Variant: a repeated flag stays at its last position.
Dedup_KeepLast(flags, seen) ==
    IF flags = <<>> THEN <<>>
    ELSE IF \E i \in 2..Len(flags) : flags[i] = Head(flags) THEN Dedup_KeepLast(Tail(flags), seen)
    ELSE <<Head(flags)>> \o Dedup_KeepLast(Tail(flags), seen)

RECURSIVE Dedup(_, _)
\* Deduplicate while preserving order.
Dedup(flags, seen) ==
    IF flags = <<>> THEN <<>>
    ELSE IF Head(flags) \in seen THEN Dedup(Tail(flags), seen)
    ELSE <<Head(flags)>> \o Dedup(Tail(flags), seen \cup {Head(flags)})

RECURSIVE LineFlags(_)
\* The tokens of the directive lines among lines, in order.
LineFlags(lines) ==
    IF lines = <<>> THEN <<>>
    ELSE (IF IsDirectiveLine(Head(lines)) THEN ShlexSplit(DirectiveArgs(Head(lines))) ELSE <<>>)
         \o LineFlags(Tail(lines))

RECURSIVE TextsFlags(_)
\* texts is a sequence of Optional[str]; a None or empty text is skipped.
TextsFlags(texts) ==
    IF texts = <<>> THEN <<>>
    ELSE (IF Truthy(Head(texts)) THEN LineFlags(SplitLines(Head(texts).v)) ELSE <<>>)
         \o TextsFlags(Tail(texts))

\* extract_dslx_run_flags(*texts): [ok |-> TRUE, flags |-> deduped], or
\* ok = FALSE when the assert on a token fails.
extract_dslx_run_flags(texts) ==
    LET flags == TextsFlags(texts)
    IN  IF \E i \in 1..Len(flags) : flags[i] \notin DashTokens
        THEN [ok |-> FALSE, flags |-> <<>>]
        ELSE [ok |-> TRUE, flags |-> Dedup(flags, {})]

----------------------------------------------------------------------------
(* Directive separation (dslx_run_flags.py). *)

RECURSIVE KeptLines_FirstOnly(_)
\* Variant: only the first directive line is taken out.
KeptLines_FirstOnly(lines) ==
    IF lines = <<>> THEN <<>>
    ELSE IF IsDirectiveLine(Head(lines)) THEN Tail(lines)
    ELSE <<Head(lines)>> \o KeptLines_FirstOnly(Tail(lines))

\* kept_lines: the lines the directive pattern does not match, in order.
KeptLines(lines) == SelectSeq(lines, LAMBDA line : ~IsDirectiveLine(line))

\* Variant: every text but the empty one gets a final line feed.
EndsWithNewline_NonEmpty(code) == code # <<>>

\* code.endswith("\n")
EndsWithNewline(code) == code # <<>> /\ code[Len(code)] = NL

\* Variant: the flags are deduplicated as extract_dslx_run_flags does.
split_dslx_run_flags_from_code_Deduped(code) ==
    LET lines == SplitLines(code)
    IN  [cleaned |-> JoinLines(KeptLines(lines))
                     \o (IF EndsWithNewline(code) THEN <<NL>> ELSE <<>>),
         flags |-> Dedup(LineFlags(lines), {})]

\* split_dslx_run_flags_from_code(code): the tokens of every directive line,
\* neither checked nor deduplicated, and the kept lines joined by line feeds.
split_dslx_run_flags_from_code(code) ==
    LET lines == SplitLines(code)
    IN  [cleaned |-> JoinLines(KeptLines(lines))
                     \o (IF EndsWithNewline(code) THEN <<NL>> ELSE <<>>),
         flags |-> LineFlags(lines)]

----------------------------------------------------------------------------
(* The inputs of evaluate_sample. *)

\* Models that require a reasoning effort config to be set.
NEED_REASONING_EFFORT == {"o3-mini", "o4-mini", "gpt-5.1", "gpt-5.2"}

\* The requirements section of a sample file: absent, present and empty,
\* present with text.
RequirementsChoices == {None, Some(<<>>), Some(<<"REQ">>)}

\* parse_sample: the samples explored.
Samples ==
    {[prompt |-> <<"PROMPT">>, signature |-> <<"SIG">>, tests |-> <<"TESTS">>,
      prologue |-> None, requirements |-> r] : r \in RequirementsChoices}

\* The arguments main passes: the critic's model and effort default to the
\* generator's.
Configs ==
    {[max_retries |-> n, run_critic_step |-> b, model |-> "gpt-4o",
      reasoning_effort |-> Some(<<"high">>), critic_model |-> "gpt-4o",
      critic_reasoning_effort |-> Some(<<"high">>)] :
        n \in (0 - MinRetriesBelow)..MaxRetries, b \in BOOLEAN}

\* What the generator model may reply (before .strip()).
GeneratorReplies ==
    { <<FENCE, "dslx", NL, "fn_a", NL, FENCE>>,     \* a balanced block
      <<SP, "fn_b", NL>>,                           \* unfenced code
      <<FENCE, "dslx", NL, "fn_a">>,                \* no closing fence
      <<FENCE, NL, "fn_a", NL>> }                   \* only a bare opening fence

\* What the toolchain subprocess may produce.
Retcodes == {0, 1, -11}
Stdouts == {<<"OUT">>}
Stderrs == {<<>>, <<"ERR">>}

----------------------------------------------------------------------------
(* CodeGenerator. *)

SYSTEM_PROMPT == <<"SYSTEM_PROMPT">>

\* Variant: every turn is recorded as a user turn.
Turn_AlwaysUser(role, content) == [role |-> "user", content |-> content]

Turn(role, content) == [role |-> role, content |-> content]

\* Variant: the system prompt is recorded as an assistant turn.
InitialMessages_AssistantFirst == <<[role |-> "assistant", content |-> SYSTEM_PROMPT]>>

\* CodeGenerator.__init__: the conversation is seeded with the system prompt
\* as a user turn.
InitialMessages == <<Turn("user", SYSTEM_PROMPT)>>

\* Variant: the assert is not evaluated.
EffortAssertFails_Never(model, effort) == FALSE

\* The assert of _get_chat_kwargs / _chat_kwargs fails.
EffortAssertFails(model, effort) == model \in NEED_REASONING_EFFORT /\ ~effort.some

\* generate_code: the user message built from the sample.
ProblemMessage(prompt, signature, prologue) ==
    prompt
    \o (IF Truthy(prologue) THEN <<NL, NL, "Prologue:", NL>> \o prologue.v ELSE <<>>)
    \o <<NL, NL, "Signature:", NL>> \o signature

\* provide_feedback: the user message built from the error message.
ErrorMessage(error_message) == <<"Error encountered:", NL>> \o error_message

----------------------------------------------------------------------------
(* The critic (eval.py run_critic). *)

\* A JSON value: t is its type; numbers are counted in thousandths.
JAbsent == [t |-> "absent", b |-> FALSE, n |-> 0, s |-> <<>>]
JNull == [t |-> "null", b |-> FALSE, n |-> 0, s |-> <<>>]
JBool(b) == [t |-> "bool", b |-> b, n |-> 0, s |-> <<>>]
JNum(n) == [t |-> "num", b |-> FALSE, n |-> n, s |-> <<>>]
JStr(s) == [t |-> "str", b |-> FALSE, n |-> 0, s |-> s]

JObject(pass, confidence, message) ==
    [is_dict |-> TRUE, pass |-> pass, confidence |-> confidence, message |-> message]
JArray == [is_dict |-> FALSE, pass |-> JAbsent, confidence |-> JAbsent, message |-> JAbsent]

\* A JSON document is one token of the text; JsonDoc gives what json.loads
\* returns for it.  J_PASS has no "message", J_FAIL has neither "pass" nor
\* "confidence", J_EMPTY is the empty object and J_LIST is an array.
JsonTokens == {"J_PASS", "J_FAIL", "J_EMPTY", "J_OVER", "J_BADCONF", "J_LIST"}

JsonDoc(tok) ==
    CASE tok = "J_PASS" -> JObject(JBool(TRUE), JNum(900), JAbsent)
      [] tok = "J_FAIL" -> JObject(JAbsent, JAbsent, JStr(<<"wrong", SP, "structure">>))
      [] tok = "J_EMPTY" -> JObject(JAbsent, JAbsent, JAbsent)
      [] tok = "J_OVER" -> JObject(JNum(1000), JNum(1500), JStr(<<SP, "sure", NL>>))
      [] tok = "J_BADCONF" -> JObject(JBool(FALSE), JStr(<<"high">>), JNull)
      [] tok = "J_LIST" -> JArray

\* json.loads(raw): raw is a JSON document or the parse fails.
JsonLoads(raw) ==
    IF Len(raw) = 1 /\ raw[1] \in JsonTokens
    THEN [ok |-> TRUE, doc |-> JsonDoc(raw[1])]
    ELSE [ok |-> FALSE, doc |-> JArray]

\* _parse_critic_json: strip_fences(text).strip(), then json.loads; ok is
\* FALSE when either raises.
parse_critic_json(text) ==
    LET sf == strip_fences(text)
    IN  IF ~sf.ok THEN [ok |-> FALSE, doc |-> JArray]
        ELSE JsonLoads(Strip(sf.value))

\* bool(x)
PyBool(x) ==
    CASE x.t = "bool" -> x.b
      [] x.t = "num" -> x.n # 0
      [] x.t = "str" -> x.s # <<>>
      [] OTHER -> FALSE

\* float(x): raises for None and for a string that is no number.
PyFloat(x) ==
    CASE x.t = "num" -> [ok |-> TRUE, n |-> x.n]
      [] x.t = "bool" -> [ok |-> TRUE, n |-> IF x.b THEN 1000 ELSE 0]
      [] OTHER -> [ok |-> FALSE, n |-> 0]

\* str(x)
PyStr(x) ==
    CASE x.t = "str" -> x.s
      [] x.t = "bool" -> IF x.b THEN <<"True">> ELSE <<"False">>
      [] x.t = "num" -> <<"<number>">>
      [] OTHER -> <<"None">>

\* Variant: parsed[key], no default.
Get_NoDefault(v, default) == v

\* dict.get(key, default)
Get(v, default) == IF v.t = "absent" THEN default ELSE v

CriticResult(ok, confidence, message, raw_json) ==
    [ok |-> ok, confidence |-> confidence, message |-> message, raw_json |-> raw_json]

\* Lines 331-335: the verdict built from a parsed reply, or raised = TRUE
\* when parsed has no .get (not a dict) or float() raises.
VerdictOf(parsed, text) ==
    LET conf == PyFloat(Get(parsed.confidence, JNum(0)))
    IN  IF ~parsed.is_dict \/ ~conf.ok
        THEN [raised |-> TRUE, result |-> CriticResult(FALSE, 0, <<>>, <<>>)]
        ELSE [raised |-> FALSE,
              result |-> CriticResult(PyBool(Get(parsed.pass, JNull)), conf.n,
                                      Strip(PyStr(Get(parsed.message, JStr(<<>>)))),
                                      Strip(strip_fences(text).value))]

NoValidJson == <<"Critic did not return valid JSON after retries.">>

\* Lines 337-342: the verdict after the attempts are used up; raised = TRUE
\* when strip_fences(last_text) raises.
GiveUpVerdict(text) ==
    LET sf == strip_fences(text)
    IN  IF ~sf.ok THEN [raised |-> TRUE, result |-> CriticResult(FALSE, 0, <<>>, <<>>)]
        ELSE [raised |-> FALSE, result |-> CriticResult(FALSE, 0, NoValidJson, Strip(sf.value))]

CRITIC_SYSTEM_PROMPT == <<"CRITIC_SYSTEM_PROMPT">>
DSLX_CRITIC_REFERENCE == <<"DSLX_CRITIC_REFERENCE">>

\* Variant: the candidate comes first in the user message.
CriticUserMessage_CandidateFirst(s, candidate) ==
    <<"Candidate DSLX implementation:", NL>>
    \o <<FENCE, "dslx", NL>> \o candidate \o <<NL, FENCE>>
    \o <<NL, NL, "Problem prompt:", NL>> \o s.prompt \o <<NL, NL, "Signature:", NL>> \o s.signature
    \o <<NL, NL, "Requirements:", NL>> \o s.requirements.v \o <<NL, NL>>
    \o DSLX_CRITIC_REFERENCE

\* run_critic's user message.
CriticUserMessage(s, candidate) ==
    <<"Problem prompt:", NL>> \o s.prompt \o <<NL, NL, "Signature:", NL>> \o s.signature
    \o <<NL, NL, "Requirements:", NL>> \o s.requirements.v \o <<NL, NL>>
    \o DSLX_CRITIC_REFERENCE \o <<NL, NL, "Candidate DSLX implementation:", NL>>
    \o <<FENCE, "dslx", NL>> \o candidate \o <<NL, FENCE>>

\* The corrective user turn after a reply that did not parse.
NotValidJsonMessage == <<"Your previous response was not valid JSON and could not be parsed.">>

\* Variant: range(1, 4), a third chat call.
CriticLastAttempt_Three == 2 + 1

\* range(1, 3): the last value of run_critic's loop variable.
CriticLastAttempt == 2

\* What the critic model may reply (before .strip()).
CriticReplies ==
    { <<"J_PASS">>,
      <<FENCE, "json", NL, "J_FAIL", NL, FENCE, NL>>,
      <<"J_OVER">>,
      <<"J_BADCONF">>,
      <<"J_LIST">>,
      <<"not", SP, "json">>,
      <<FENCE, "json", NL, "J_FAIL">> }

----------------------------------------------------------------------------
(* The toolchain (eval.py run_dslx_tests). *)

\* f'{sample_filename}-attempt-{attempt}' + suffix, a file name in tmpdir.
AttemptFile(k, suffix) == [attempt |-> k, suffix |-> suffix]

\* The import statement run_dslx_tests looks for and injects.
IMPORT_STD == "import std;"

\* The tokens that hold the characters of IMPORT_STD: the statement itself,
\* and a comment that mentions it.
HoldsImportStd == {IMPORT_STD, "// uses import std;"}

\* "\n\n// -- tests\n\n"
TestsMarker == <<NL, NL, "// -- tests", NL, NL>>

\* prologue_lines: the lines of the de-fenced prologue, each stripped.
PrologueLines(prologue) ==
    [j \in 1..Len(SplitLines(prologue)) |-> Strip(SplitLines(prologue)[j])]

\* has_import_std: the characters occur anywhere in the candidate as it was
\* generated, or a prologue line is, once stripped, exactly the statement.
has_import_std(generated, prologue_lines) ==
    \/ \E i \in 1..Len(generated) : generated[i] \in HoldsImportStd
    \/ \E j \in 1..Len(prologue_lines) : Strip(prologue_lines[j]) = <<IMPORT_STD>>

\* full_code, or the ValueError of the first strip_fences call that raises:
\* [ok |-> TRUE, value |-> full_code], or [ok |-> FALSE, error |-> message].
ComposeProgram(generated, s) ==
    LET prologue == IF Truthy(s.prologue) THEN strip_fences(s.prologue.v)
                    ELSE [ok |-> TRUE, value |-> <<>>, error |-> <<>>]
        lines == IF prologue.ok THEN PrologueLines(prologue.value) ELSE <<>>
        prologue_lines == IF has_import_std(generated, lines) THEN lines
                          ELSE Append(lines, <<IMPORT_STD>>)
        body == strip_fences(generated)
        tests == strip_fences(s.tests)
    IN  IF ~prologue.ok THEN [ok |-> FALSE, value |-> <<>>, error |-> prologue.error]
        ELSE IF ~body.ok THEN [ok |-> FALSE, value |-> <<>>, error |-> body.error]
        ELSE IF ~tests.ok THEN [ok |-> FALSE, value |-> <<>>, error |-> tests.error]
        ELSE [ok |-> TRUE, error |-> <<>>,
              value |-> JoinLines(prologue_lines) \o <<NL, NL>> \o body.value
                        \o TestsMarker \o tests.value]

\* Variant: the comparison mode comes before the extracted flags.
Command_CompareFirst(x_path, extra_flags) ==
    [binary |-> "DSLX_INTERPRETER_MAIN", x_path |-> x_path,
     flags |-> <<"--dslx_stdlib_path", "DSLX_STDLIB_PATH", "--compare=jit">> \o extra_flags]

\* cmd: the binary, the program file, the standard library path, the
\* extracted flags, the comparison mode.
Command(x_path, extra_flags) ==
    [binary |-> "DSLX_INTERPRETER_MAIN", x_path |-> x_path,
     flags |-> <<"--dslx_stdlib_path", "DSLX_STDLIB_PATH">> \o extra_flags \o <<"--compare=jit">>]

\* Variant: only a negative, signal-derived code fails.
RunSucceeded_NonNegative(retcode) == retcode >= 0

\* success = result.returncode == 0
RunSucceeded(retcode) == retcode = 0

RunResult(command, retcode, stdout, stderr) ==
    [command |-> command, success |-> RunSucceeded(retcode), retcode |-> retcode,
     stdout |-> stdout, stderr |-> stderr]

\* Optional values of record type.
NoRunResult == [some |-> FALSE, v |-> RunResult(Command(AttemptFile(0, ".x"), <<>>), 0, <<>>, <<>>)]
NoCriticResult == [some |-> FALSE, v |-> CriticResult(FALSE, 0, <<>>, <<>>)]

\* The files evaluate_sample writes after a run (lines 494-499).
RunOutputFiles(k) ==
    {AttemptFile(k, "-result-retcode.txt"), AttemptFile(k, "-result-stdout.txt"),
     AttemptFile(k, "-result-stderr.txt")}

----------------------------------------------------------------------------
(* evaluate_sample: the conditions and texts of the retry loop. *)

\* Variant: the maximum is not clamped.
MaxAttempts_NoClamp(c) == c.max_retries

\* Variant: range(1, max(1, max_retries)), one attempt short.
MaxAttempts_OneShort(c) == IF c.max_retries > 2 THEN c.max_retries - 1 ELSE 1

\* max(1, max_retries): the last value of the loop variable.
MaxAttempts(c) == IF c.max_retries > 1 THEN c.max_retries ELSE 1

\* Variant: "if feedback_from_last_iteration:", false for an empty text.
UseFeedback_Truthy(fb) == Truthy(fb)

\* if feedback_from_last_iteration is not None
UseFeedback(fb) == fb.some

\* What evaluate_sample hands to provide_feedback (line 468).
WrapFeedback(fb) == <<FENCE, NL>> \o fb \o <<NL, FENCE, NL>>

\* The feedback after a fence error (lines 481-485); e is str(e).
FenceErrorFeedback(e) ==
    <<"Your response did not include a *balanced* triple-backtick fenced code block. Error details: ">>
    \o e \o <<NL, "Please output the DSLX solution wrapped in <fence> fences as previously requested.">>

\* Variant: the run's stdout is fed back.
ToolchainFeedback_Stdout(rr) == rr.stdout

\* The feedback after a failed run (line 546).
ToolchainFeedback(rr) == rr.stderr

\* The feedback after a critic rejection (lines 531-534).
CriticFeedback(message) ==
    <<"Requirements check failed (tests passed). Please revise the implementation to satisfy the requirements.",
      NL, NL, "Critic message: ">> \o message \o <<NL>>

\* Variant: "sample.requirements is not None", true for an empty section.
CriticWanted_NotNone(c, s) == c.run_critic_step /\ s.requirements.some

\* if run_critic_step and sample.requirements
CriticWanted(c, s) == c.run_critic_step /\ Truthy(s.requirements)

\* Variant: the attempts are taken to count from 0.
FirstAttempt_ZeroBased(k) == k = 0

\* attempt == 1
FirstAttempt(k) == k = 1

EvaluateSampleResult(success, first_attempt_success) ==
    [success |-> success, first_attempt_success |-> first_attempt_success]

NoResult == [some |-> FALSE, v |-> EvaluateSampleResult(FALSE, FALSE)]

\* Variant: the continue after a fence error is missing.
AfterValidate_NoContinue(sf) == "run"

\* Lines 477-489: where control goes after strip_fences(generated_code).
AfterValidate(sf) == IF sf.ok THEN "run" ELSE "loop"

\* Variant: the return after a successful run is missing.
AfterRun_NoReturn(rr, c, s) ==
    IF rr.success /\ CriticWanted(c, s) THEN "critic" ELSE "failure"

\* Lines 510-546: where control goes after the run.
AfterRun(rr, c, s) ==
    IF rr.success THEN (IF CriticWanted(c, s) THEN "critic" ELSE "success") ELSE "failure"

\* Variant: the verdict is not looked at.
AfterCritic_Ignored(cr) == "success"

\* Variant: an ok verdict counts only with full confidence.
AfterCritic_Confident(cr) == IF cr.ok /\ cr.confidence >= 1000 THEN "success" ELSE "loop"

\* Lines 530-538: where control goes after the critic's verdict.
AfterCritic(cr) == IF cr.ok THEN "success" ELSE "loop"

----------------------------------------------------------------------------
(* evaluate_sample: the state machine. *)

\* print_color_diff(text1, text2) was called, or no diff was printed.
Diff(text1, text2) == [some |-> TRUE, text1 |-> text1, text2 |-> text2]
NoDiff == [some |-> FALSE, text1 |-> <<>>, text2 |-> <<>>]

\* Lines 505-508: the diff of the last two candidates, if there are two.
DiffOfLastTwo(generated) ==
    IF Len(generated) >= 2
    THEN Diff(generated[Len(generated) - 1], generated[Len(generated)])
    ELSE NoDiff

\* The observer's record of one attempt.
AttemptRecord(k, method, arg) ==
    [index |-> k, method |-> method, arg |-> arg, candidate |-> None,
     fence |-> "pending", fence_error |-> None,
     run |-> "none", stderr |-> None,    \* stderr: that of a failed run
     critic |-> "none", critic_reply |-> None, critic_message |-> None,
     diff |-> NoDiff,                    \* the texts print_color_diff compared
     sources |-> <<>>, done |-> FALSE]

Call(kind, k) == [kind |-> kind, attempt |-> k]

\* No directive operation has been applied.
NoDirectiveCall == [op |-> "none", code |-> <<>>, ok |-> FALSE, flags |-> <<>>, cleaned |-> <<>>]

\* generate_tests is not in use.
NoGen ==
    [pc |-> "none", args |-> <<>>, lines |-> <<>>, i |-> 0, first_test |-> TRUE, output |-> <<>>]

\* v2x is not in use.
NoV2x ==
    [pc |-> "none", opts |-> <<>>, attempt |-> 0, feedback_history |-> <<>>,
     generated_code |-> <<>>, messages |-> <<>>, files |-> <<>>, exception |-> "none",
     checked |-> <<>>, proved |-> <<>>, calls |-> <<>>]

\* No temporary directory object exists.
NoTemp ==
    [branch |-> "none", delete |-> TRUE, stage |-> "none", exists |-> FALSE,
     finalizer |-> "none", artifacts |-> {}, explicit |-> FALSE]

\* No direct call of strip_fences has been made.
NotCalled == [called |-> FALSE, ok |-> FALSE, value |-> <<>>, error |-> <<>>]

Init ==
    /\ cfg \in Configs
    /\ sample \in Samples
    /\ pc = "loop"
    /\ attempt = 0
    /\ feedback_from_last_iteration = None
    /\ generated_code = <<>>
    /\ all_generated = <<>>
    /\ run_result = NoRunResult
    /\ critic_result = NoCriticResult
    /\ messages = InitialMessages
    /\ critic_messages = <<>>
    /\ critic_attempt = 0
    /\ last_text = <<>>
    /\ files = {}
    /\ full_code = None
    /\ result = NoResult
    /\ exception = "none"
    /\ history = <<>>
    /\ calls = <<>>
    /\ main_pc = "none"
    /\ sample_files = <<>>
    /\ results = <<>>
    /\ scorecard = <<>>
    /\ call_text = <<>>
    /\ call_result = NotCalled
    /\ dir_texts = <<>>
    /\ dir_call = NoDirectiveCall
    /\ tmp = NoTemp
    /\ gen = NoGen
    /\ v2x = NoV2x

\* Variant: a chat call that raises takes its user turn back.
GeneratorCall_RollsBack(k, method, arg, user_message) ==
    LET with_user == Append(messages, Turn("user", user_message))
        rec == AttemptRecord(k, method, arg)
    IN  /\ attempt' = k
        /\ calls' = Append(calls, Call(method, k))
        /\ IF EffortAssertFails(cfg.model, cfg.reasoning_effort)
           THEN /\ messages' = with_user
                /\ history' = Append(history, rec)
                /\ pc' = "raised"
                /\ exception' = "AssertionError"
                /\ UNCHANGED <<generated_code, all_generated>>
           ELSE \/ \* the chat call raises (transport, auth, timeout)
                   /\ messages' = messages
                   /\ history' = Append(history, rec)
                   /\ pc' = "raised"
                   /\ exception' = "APIError"
                   /\ UNCHANGED <<generated_code, all_generated>>
                \/ \E reply \in GeneratorReplies :
                     LET assistant_response == Strip(reply)
                     IN  /\ messages' = Append(with_user, Turn("assistant", assistant_response))
                         /\ generated_code' = assistant_response
                         /\ all_generated' = Append(all_generated, assistant_response)
                         /\ history' = Append(history, [rec EXCEPT !.candidate = Some(assistant_response)])
                         /\ pc' = "validate"
                         /\ UNCHANGED exception
        /\ UNCHANGED <<cfg, sample, feedback_from_last_iteration, run_result, critic_result,
                       critic_messages, critic_attempt, last_text, files, full_code, result>>

\* One call of a CodeGenerator method in attempt k: the user turn is
\* appended, then the chat call is made (the assert of _get_chat_kwargs
\* first), then the stripped reply is appended and returned.
GeneratorCall(k, method, arg, user_message) ==
    LET with_user == Append(messages, Turn("user", user_message))
        rec == AttemptRecord(k, method, arg)
    IN  /\ attempt' = k
        /\ calls' = Append(calls, Call(method, k))
        /\ IF EffortAssertFails(cfg.model, cfg.reasoning_effort)
           THEN /\ messages' = with_user
                /\ history' = Append(history, rec)
                /\ pc' = "raised"
                /\ exception' = "AssertionError"
                /\ UNCHANGED <<generated_code, all_generated>>
           ELSE \/ \* the chat call raises (transport, auth, timeout)
                   /\ messages' = with_user
                   /\ history' = Append(history, rec)
                   /\ pc' = "raised"
                   /\ exception' = "APIError"
                   /\ UNCHANGED <<generated_code, all_generated>>
                \/ \E reply \in GeneratorReplies :
                     LET assistant_response == Strip(reply)
                     IN  /\ messages' = Append(with_user, Turn("assistant", assistant_response))
                         /\ generated_code' = assistant_response
                         /\ all_generated' = Append(all_generated, assistant_response)
                         /\ history' = Append(history, [rec EXCEPT !.candidate = Some(assistant_response)])
                         /\ pc' = "validate"
                         /\ UNCHANGED exception
        /\ UNCHANGED <<cfg, sample, feedback_from_last_iteration, run_result, critic_result,
                       critic_messages, critic_attempt, last_text, files, full_code, result>>

\* Lines 465-472, first branch taken: codegen.generate_code.
generate_code ==
    /\ pc = "loop"
    /\ attempt < MaxAttempts(cfg)
    /\ ~UseFeedback(feedback_from_last_iteration)
    /\ GeneratorCall(attempt + 1, "generate_code", <<>>,
                     ProblemMessage(sample.prompt, sample.signature, sample.prologue))
    /\ UNCHANGED outer_vars

\* Lines 465-472, second branch taken: codegen.provide_feedback.
provide_feedback ==
    /\ pc = "loop"
    /\ attempt < MaxAttempts(cfg)
    /\ UseFeedback(feedback_from_last_iteration)
    /\ LET arg == WrapFeedback(feedback_from_last_iteration.v)
       IN  GeneratorCall(attempt + 1, "provide_feedback", arg, ErrorMessage(arg))
    /\ UNCHANGED outer_vars

\* Lines 477-486: strip_fences on the candidate; a ValueError sets the
\* feedback and continues.
ValidateFences ==
    /\ pc = "validate"
    /\ LET sf == strip_fences(generated_code)
       IN  /\ pc' = AfterValidate(sf)
           /\ IF sf.ok
              THEN /\ history' = [history EXCEPT ![attempt].fence = "ok"]
                   /\ UNCHANGED feedback_from_last_iteration
              ELSE /\ feedback_from_last_iteration' = Some(FenceErrorFeedback(sf.error))
                   /\ history' = [history EXCEPT ![attempt].fence = "error",
                                                 ![attempt].fence_error = Some(sf.error),
                                                 ![attempt].sources = Append(@, "fence")]
    /\ UNCHANGED <<cfg, sample, attempt, generated_code, all_generated, run_result,
                   critic_result, messages, critic_messages, critic_attempt, last_text,
                   files, full_code, result, exception, calls>>
    /\ UNCHANGED outer_vars

\* Lines 489-508: run_dslx_tests writes the program file, extracts the flags
\* and runs the interpreter; evaluate_sample then writes the run's outputs
\* and prints the candidate and its diff against the one before.
run_dslx_tests ==
    /\ pc = "run"
    /\ LET x_path == AttemptFile(attempt, ".x")
           composed == ComposeProgram(generated_code, sample)
           extra == extract_dslx_run_flags(<<sample.prologue, Some(generated_code)>>)
       IN  /\ calls' = Append(calls, Call("run_dslx_tests", attempt))
           /\ IF ~composed.ok
              THEN \* strip_fences raises while the program is composed
                   /\ pc' = "raised"
                   /\ exception' = "ValueError"
                   /\ UNCHANGED <<run_result, files, full_code, history>>
              ELSE IF ~extra.ok
              THEN \* the program file is written, then the assert on a
                   \* directive token fails
                   /\ pc' = "raised"
                   /\ exception' = "AssertionError"
                   /\ files' = files \cup {x_path}
                   /\ full_code' = Some(composed.value)
                   /\ UNCHANGED <<run_result, history>>
              ELSE \E retcode \in Retcodes, stdout \in Stdouts, stderr \in Stderrs :
                     LET rr == RunResult(Command(x_path, extra.flags), retcode, stdout, stderr)
                     IN  /\ run_result' = Some(rr)
                         /\ files' = files \cup {x_path} \cup RunOutputFiles(attempt)
                         /\ full_code' = Some(composed.value)
                         /\ history' = [history EXCEPT
                                ![attempt].diff = DiffOfLastTwo(all_generated),
                                ![attempt].run = IF retcode = 0 THEN "success" ELSE "failure",
                                ![attempt].stderr = IF retcode = 0 THEN None ELSE Some(stderr)]
                         /\ pc' = "check"
                         /\ UNCHANGED exception
    /\ UNCHANGED <<cfg, sample, attempt, feedback_from_last_iteration, generated_code,
                   all_generated, critic_result, messages, critic_messages, critic_attempt,
                   last_text, result>>
    /\ UNCHANGED outer_vars


\* Lines 537-538: return EvaluateSampleResult(True, attempt == 1).
Succeed ==
    /\ result' = Some(EvaluateSampleResult(TRUE, FirstAttempt(attempt)))
    /\ history' = [history EXCEPT ![attempt].done = TRUE]
    /\ pc' = "returned"

\* Lines 510-512 and 537-538: the run succeeded and no critic is wanted.
ReturnSuccess ==
    /\ pc = "check"
    /\ AfterRun(run_result.v, cfg, sample) = "success"
    /\ Succeed
    /\ UNCHANGED <<cfg, sample, attempt, feedback_from_last_iteration, generated_code,
                   all_generated, run_result, critic_result, messages, critic_messages,
                   critic_attempt, last_text, files, full_code, exception, calls>>
    /\ UNCHANGED outer_vars

\* Lines 540-546: the run failed; its stderr becomes the feedback.
ToolchainFailed ==
    /\ pc = "check"
    /\ AfterRun(run_result.v, cfg, sample) = "failure"
    /\ feedback_from_last_iteration' = Some(ToolchainFeedback(run_result.v))
    /\ history' = [history EXCEPT ![attempt].sources = Append(@, "toolchain")]
    /\ pc' = "loop"
    /\ UNCHANGED <<cfg, sample, attempt, generated_code, all_generated, run_result,
                   critic_result, messages, critic_messages, critic_attempt, last_text,
                   files, full_code, result, exception, calls>>
    /\ UNCHANGED outer_vars

\* Lines 512-518 and 282-310: run_critic is entered; it builds a fresh
\* conversation from the sample and the de-fenced candidate.
CriticStart ==
    /\ pc = "check"
    /\ AfterRun(run_result.v, cfg, sample) = "critic"
    /\ LET candidate == Strip(strip_fences(generated_code).value)
       IN  critic_messages' = <<Turn("system", CRITIC_SYSTEM_PROMPT),
                                Turn("user", CriticUserMessage(sample, candidate))>>
    /\ last_text' = <<>>
    /\ critic_attempt' = 1
    /\ calls' = Append(calls, Call("run_critic", attempt))
    /\ history' = [history EXCEPT ![attempt].critic = "started"]
    /\ pc' = "critic"
    /\ UNCHANGED <<cfg, sample, attempt, feedback_from_last_iteration, generated_code,
                   all_generated, run_result, critic_result, messages, files, full_code, result,
                   exception>>
    /\ UNCHANGED outer_vars

\* run_critic raises: the exception leaves evaluate_sample; h is the
\* observer's record so far.
CriticRaises(exc, h) ==
    /\ pc' = "raised"
    /\ exception' = exc
    /\ history' = [h EXCEPT ![attempt].critic = "raised"]
    /\ UNCHANGED critic_result

\* run_critic returns cr to evaluate_sample.
CriticReturns(cr, h) ==
    /\ critic_result' = Some(cr)
    /\ pc' = "critic_done"
    /\ history' = h
    /\ UNCHANGED exception

\* run_critic's locals are gone once it is left.
CriticLocalsDropped ==
    /\ critic_messages' = <<>>
    /\ critic_attempt' = 0
    /\ last_text' = <<>>

\* Lines 311-335: one pass of run_critic's loop: the chat call, the parse,
\* and either the corrective turns or the verdict.
CriticChat ==
    /\ pc = "critic"
    /\ critic_attempt <= CriticLastAttempt
    /\ calls' = Append(calls, Call("critic_chat", attempt))
    /\ IF EffortAssertFails(cfg.critic_model, cfg.critic_reasoning_effort)
       THEN CriticRaises("AssertionError", history) /\ CriticLocalsDropped
       ELSE \/ \* the chat call raises
               CriticRaises("APIError", history) /\ CriticLocalsDropped
            \/ \E reply \in CriticReplies :
                 LET text == Strip(reply)
                     parsed == parse_critic_json(text)
                     verdict == VerdictOf(parsed.doc, text)
                     seen == [history EXCEPT ![attempt].critic_reply = Some(text)]
                 IN  IF ~parsed.ok
                     THEN /\ last_text' = text
                          /\ critic_messages' =
                               critic_messages \o <<Turn("assistant", text),
                                                    Turn("user", NotValidJsonMessage)>>
                          /\ critic_attempt' = critic_attempt + 1
                          /\ history' = seen
                          /\ UNCHANGED <<critic_result, pc, exception>>
                     ELSE /\ IF verdict.raised
                             THEN CriticRaises("ValueError", seen)
                             ELSE CriticReturns(verdict.result, seen)
                          /\ CriticLocalsDropped
    /\ UNCHANGED <<cfg, sample, attempt, feedback_from_last_iteration, generated_code,
                   all_generated, run_result, messages, files, full_code, result>>
    /\ UNCHANGED outer_vars

\* Lines 337-342: the loop of run_critic is used up.
CriticGiveUp ==
    /\ pc = "critic"
    /\ critic_attempt > CriticLastAttempt
    /\ LET verdict == GiveUpVerdict(last_text)
       IN  IF verdict.raised
           THEN CriticRaises("ValueError", history)
           ELSE CriticReturns(verdict.result, history)
    /\ CriticLocalsDropped
    /\ UNCHANGED <<cfg, sample, attempt, feedback_from_last_iteration, generated_code,
                   all_generated, run_result, messages, files, full_code, result, calls>>
    /\ UNCHANGED outer_vars

\* Lines 524-538: the critic's raw JSON is written, then the verdict decides.
CriticVerdict ==
    /\ pc = "critic_done"
    /\ files' = files \cup {AttemptFile(attempt, "-critic.json")}
    /\ IF AfterCritic(critic_result.v) = "success"
       THEN /\ result' = Some(EvaluateSampleResult(TRUE, FirstAttempt(attempt)))
            /\ history' = [history EXCEPT ![attempt].done = TRUE,
                                          ![attempt].critic = IF critic_result.v.ok THEN "ok" ELSE "rejected",
                                          ![attempt].critic_message = Some(critic_result.v.message)]
            /\ pc' = "returned"
            /\ UNCHANGED feedback_from_last_iteration
       ELSE /\ feedback_from_last_iteration' = Some(CriticFeedback(critic_result.v.message))
            /\ history' = [history EXCEPT ![attempt].sources = Append(@, "critic"),
                                          ![attempt].critic = IF critic_result.v.ok THEN "ok" ELSE "rejected",
                                          ![attempt].critic_message = Some(critic_result.v.message)]
            /\ pc' = "loop"
            /\ UNCHANGED result
    /\ UNCHANGED <<cfg, full_code, sample, attempt, generated_code, all_generated, run_result,
                   critic_result, messages, critic_messages, critic_attempt, last_text,
                   exception, calls>>
    /\ UNCHANGED outer_vars

\* Lines 548-549: the loop is used up.
AllAttemptsFailed ==
    /\ pc = "loop"
    /\ attempt >= MaxAttempts(cfg)
    /\ result' = Some(EvaluateSampleResult(FALSE, FALSE))
    /\ pc' = "returned"
    /\ UNCHANGED <<cfg, sample, attempt, feedback_from_last_iteration, generated_code,
                   all_generated, run_result, critic_result, messages, critic_messages,
                   critic_attempt, last_text, files, full_code, exception, history, calls>>
    /\ UNCHANGED outer_vars

Next ==
    \/ generate_code
    \/ provide_feedback
    \/ ValidateFences
    \/ run_dslx_tests
    \/ ReturnSuccess
    \/ ToolchainFailed
    \/ CriticStart
    \/ CriticChat
    \/ CriticGiveUp
    \/ CriticVerdict
    \/ AllAttemptsFailed

Spec == Init /\ [][Next]_vars

----------------------------------------------------------------------------
(* main: the batch driver. *)

\* The options main passes on to every evaluate_sample call of one batch.
MainConfigs == {c \in Configs : c.max_retries \in {1, 2}}

\* The sample files of a batch: at least one, at most BatchSize.
SampleFiles == UNION {[1..n -> Samples] : n \in 1..BatchSize}

\* One line of the scorecard (lines 639-647).
ScorecardLine(i, r) ==
    [sample_file |-> i,
     status |-> IF r.success THEN "PASS" ELSE "FAIL",
     first_attempt |-> IF r.first_attempt_success THEN "FIRST ATTEMPT" ELSE "MULTIPLE ATTEMPTS"]

\* No evaluate_sample call is under way: its locals do not exist.
NoEvaluation ==
    /\ attempt' = 0
    /\ feedback_from_last_iteration' = None
    /\ generated_code' = <<>>
    /\ all_generated' = <<>>
    /\ run_result' = NoRunResult
    /\ critic_result' = NoCriticResult
    /\ critic_messages' = <<>>
    /\ critic_attempt' = 0
    /\ last_text' = <<>>
    /\ files' = {}
    /\ full_code' = None
    /\ result' = NoResult
    /\ exception' = "none"
    /\ history' = <<>>
    /\ calls' = <<>>

MainInit ==
    /\ cfg \in MainConfigs
    /\ sample_files \in SampleFiles
    /\ sample = sample_files[1]
    /\ main_pc = "loop"
    /\ results = <<>>
    /\ scorecard = <<>>
    /\ pc = "idle"
    /\ attempt = 0
    /\ feedback_from_last_iteration = None
    /\ generated_code = <<>>
    /\ all_generated = <<>>
    /\ run_result = NoRunResult
    /\ critic_result = NoCriticResult
    /\ messages = <<>>
    /\ critic_messages = <<>>
    /\ critic_attempt = 0
    /\ last_text = <<>>
    /\ files = {}
    /\ full_code = None
    /\ result = NoResult
    /\ exception = "none"
    /\ history = <<>>
    /\ calls = <<>>
    /\ call_text = <<>>
    /\ call_result = NotCalled
    /\ dir_texts = <<>>
    /\ dir_call = NoDirectiveCall
    /\ tmp = NoTemp
    /\ gen = NoGen
    /\ v2x = NoV2x

\* Lines 621-631: main calls evaluate_sample for the next sample file;
\* evaluate_sample parses the sample, makes a new temporary directory and
\* constructs a new CodeGenerator (lines 452-464).
MainEvaluate ==
    /\ main_pc = "loop"
    /\ Len(results) < Len(sample_files)
    /\ main_pc' = "evaluating"
    /\ sample' = sample_files[Len(results) + 1]
    /\ pc' = "loop"
    /\ messages' = InitialMessages
    /\ NoEvaluation
    /\ UNCHANGED <<cfg, sample_files, results, scorecard, call_text, call_result, dir_texts, dir_call, tmp, gen, v2x>>

\* Line 632: evaluate_sample returned; its result is recorded.
MainRecord ==
    /\ main_pc = "evaluating"
    /\ pc = "returned"
    /\ results' = Append(results, result.v)
    /\ main_pc' = "loop"
    /\ pc' = "idle"
    /\ messages' = <<>>
    /\ NoEvaluation
    /\ UNCHANGED <<cfg, sample, sample_files, scorecard, call_text, call_result, dir_texts, dir_call, tmp, gen, v2x>>

\* Lines 621-632 hold no try: an exception that leaves evaluate_sample
\* leaves main as well, and the interpreter ends with a traceback.
MainAborted ==
    /\ main_pc = "evaluating"
    /\ pc = "raised"
    /\ main_pc' = "crashed"
    /\ UNCHANGED <<cfg, sample, pc, attempt, feedback_from_last_iteration, generated_code,
                   all_generated, run_result, critic_result, messages, critic_messages,
                   critic_attempt, last_text, files, full_code, result, exception, history, calls,
                   sample_files, results, scorecard, call_text, call_result, dir_texts, dir_call, tmp, gen, v2x>>

\* Lines 634-647: the scorecard, one line per recorded result.
MainScorecard ==
    /\ main_pc = "loop"
    /\ Len(results) = Len(sample_files)
    /\ scorecard' = [i \in 1..Len(results) |-> ScorecardLine(i, results[i])]
    /\ main_pc' = "done"
    /\ UNCHANGED <<cfg, sample, pc, attempt, feedback_from_last_iteration, generated_code,
                   all_generated, run_result, critic_result, messages, critic_messages,
                   critic_attempt, last_text, files, full_code, result, exception, history, calls,
                   sample_files, results, call_text, call_result, dir_texts, dir_call, tmp, gen, v2x>>

MainNext ==
    \/ MainEvaluate
    \/ generate_code
    \/ provide_feedback
    \/ ValidateFences
    \/ run_dslx_tests
    \/ ReturnSuccess
    \/ ToolchainFailed
    \/ CriticStart
    \/ CriticChat
    \/ CriticGiveUp
    \/ CriticVerdict
    \/ AllAttemptsFailed
    \/ MainRecord
    \/ MainAborted
    \/ MainScorecard

MainSpec == MainInit /\ [][MainNext]_vars

----------------------------------------------------------------------------
(* strip_fences called directly, on any text. *)

\* The tokens of the texts explored.
TextAlphabet == {FENCE, NL, CR, SP, "x"}

\* All texts of at most n tokens.
TextsUpTo(n) == UNION {[1..k -> TextAlphabet] : k \in 0..n}

\* The opening fence lines explored: bare, and with a language tag.
OpeningLines == {<<FENCE>>, <<FENCE, "dslx">>}

\* An opening fence line, a line feed, the body, a line feed, a closing line.
FencedText(opening, body) == opening \o <<NL>> \o body \o <<NL, FENCE>>

Bodies == TextsUpTo(MaxBodyLen)

\* The arguments explored: every short text, and every fenced body.
CallTexts ==
    TextsUpTo(MaxTextLen) \cup {FencedText(o, b) : o \in OpeningLines, b \in Bodies}

FenceInit ==
    /\ call_text \in CallTexts
    /\ call_result = NotCalled
    /\ dir_texts = <<>>
    /\ dir_call = NoDirectiveCall
    /\ tmp = NoTemp
    /\ gen = NoGen
    /\ v2x = NoV2x
    /\ cfg \in {c \in Configs : c.max_retries = 1 /\ c.run_critic_step}
    /\ sample \in {s \in Samples : ~s.requirements.some}
    /\ main_pc = "none"
    /\ sample_files = <<>>
    /\ results = <<>>
    /\ scorecard = <<>>
    /\ pc = "idle"
    /\ attempt = 0
    /\ feedback_from_last_iteration = None
    /\ generated_code = <<>>
    /\ all_generated = <<>>
    /\ run_result = NoRunResult
    /\ critic_result = NoCriticResult
    /\ messages = <<>>
    /\ critic_messages = <<>>
    /\ critic_attempt = 0
    /\ last_text = <<>>
    /\ files = {}
    /\ full_code = None
    /\ result = NoResult
    /\ exception = "none"
    /\ history = <<>>
    /\ calls = <<>>

\* strip_fences(call_text) returns or raises.
StripFencesCall ==
    /\ ~call_result.called
    /\ LET sf == strip_fences(call_text)
       IN  call_result' = [called |-> TRUE, ok |-> sf.ok, value |-> sf.value, error |-> sf.error]
    /\ UNCHANGED <<cfg, sample, pc, attempt, feedback_from_last_iteration, generated_code,
                   all_generated, run_result, critic_result, messages, critic_messages,
                   critic_attempt, last_text, files, full_code, result, exception, history, calls,
                   main_pc, sample_files, results, scorecard, call_text, dir_texts, dir_call, tmp, gen, v2x>>

FenceNext == StripFencesCall

FenceSpec == FenceInit /\ [][FenceNext]_vars

----------------------------------------------------------------------------
(* The directive operations called directly, on any texts. *)

\* The lines of the code texts explored: an empty line, code, directive lines
\* without tokens, with one token, with two tokens after leading blanks, with
\* a token that lacks the two dashes, and code followed by a directive head.
CodeLines ==
    {<<>>,
     <<"x">>,
     <<"// dslx_run_flags:">>,
     <<"// dslx_run_flags:", SP, "--a=1">>,
     <<SP, "// dslx_run_options:", "--b=2", SP, "--a=1">>,
     <<"// dslx_run_flags:", SP, "foo">>,
     <<"x", SP, "// dslx_run_flags:", "--a=1">>}

\* The line boundaries between lines, and the ends of a text.
Separators == {<<NL>>, <<CR, NL>>}
Endings == {<<>>, <<NL>>, <<CR, NL>>}

RECURSIVE JoinWith(_, _)
JoinWith(lines, sep) ==
    IF lines = <<>> THEN <<>>
    ELSE IF Len(lines) = 1 THEN lines[1]
    ELSE lines[1] \o sep \o JoinWith(Tail(lines), sep)

\* All code texts of at most MaxLines lines.
CodeTexts ==
    {JoinWith(ls, sep) \o e :
        ls \in UNION {[1..k -> CodeLines] : k \in 0..MaxLines},
        sep \in Separators, e \in Endings}

\* The prologues given before the code: none, an empty one, one with a directive.
DirectivePrologues ==
    {None, Some(<<>>), Some(<<"// dslx_run_flags:", SP, "--a=1", NL, "x">>)}

\* The argument lists explored: the code alone (dslx_run_flags.py), and a
\* prologue followed by the code (eval.py).
DirTexts ==
    {<<Some(c)>> : c \in CodeTexts}
        \cup {<<p, Some(c)>> : p \in DirectivePrologues, c \in CodeTexts}

FlagInit ==
    /\ dir_texts \in DirTexts
    /\ dir_call = NoDirectiveCall
    /\ tmp = NoTemp
    /\ gen = NoGen
    /\ v2x = NoV2x
    /\ call_text = <<>>
    /\ call_result = NotCalled
    /\ cfg \in {c \in Configs : c.max_retries = 1 /\ c.run_critic_step}
    /\ sample \in {s \in Samples : ~s.requirements.some}
    /\ main_pc = "none"
    /\ sample_files = <<>>
    /\ results = <<>>
    /\ scorecard = <<>>
    /\ pc = "idle"
    /\ attempt = 0
    /\ feedback_from_last_iteration = None
    /\ generated_code = <<>>
    /\ all_generated = <<>>
    /\ run_result = NoRunResult
    /\ critic_result = NoCriticResult
    /\ messages = <<>>
    /\ critic_messages = <<>>
    /\ critic_attempt = 0
    /\ last_text = <<>>
    /\ files = {}
    /\ full_code = None
    /\ result = NoResult
    /\ exception = "none"
    /\ history = <<>>
    /\ calls = <<>>

\* What the directive operations leave alone.
DirectiveFrame ==
    UNCHANGED <<cfg, sample, pc, attempt, feedback_from_last_iteration, generated_code,
                all_generated, run_result, critic_result, messages, critic_messages,
                critic_attempt, last_text, files, full_code, result, exception, history,
                calls, main_pc, sample_files, results, scorecard, call_text, call_result,
                dir_texts, tmp, gen, v2x>>

\* extract_dslx_run_flags(*dir_texts) returns, or its assert fails.
ExtractCall ==
    /\ dir_call.op = "none"
    /\ LET r == extract_dslx_run_flags(dir_texts)
       IN  dir_call' = [op |-> "extract", code |-> <<>>, ok |-> r.ok,
                        flags |-> r.flags, cleaned |-> <<>>]
    /\ DirectiveFrame

\* split_dslx_run_flags_from_code(code) returns, for the code of dir_texts.
SplitCall ==
    /\ dir_call.op = "none"
    /\ LET code == dir_texts[Len(dir_texts)].v
           r == split_dslx_run_flags_from_code(code)
       IN  dir_call' = [op |-> "split", code |-> code, ok |-> TRUE,
                        flags |-> r.flags, cleaned |-> r.cleaned]
    /\ DirectiveFrame

\* split_dslx_run_flags_from_code applied to the cleaned code it returned.
ResplitCall ==
    /\ dir_call.op = "split"
    /\ LET r == split_dslx_run_flags_from_code(dir_call.cleaned)
       IN  dir_call' = [op |-> "resplit", code |-> dir_call.cleaned, ok |-> TRUE,
                        flags |-> r.flags, cleaned |-> r.cleaned]
    /\ DirectiveFrame

\* extract_dslx_run_flags applied to the cleaned code that was returned.
ReextractCall ==
    /\ dir_call.op = "split"
    /\ LET r == extract_dslx_run_flags(<<Some(dir_call.cleaned)>>)
       IN  dir_call' = [op |-> "reextract", code |-> dir_call.cleaned, ok |-> r.ok,
                        flags |-> r.flags, cleaned |-> <<>>]
    /\ DirectiveFrame

FlagNext ==
    \/ ExtractCall
    \/ SplitCall
    \/ ResplitCall
    \/ ReextractCall

FlagSpec == FlagInit /\ [][FlagNext]_vars

----------------------------------------------------------------------------
(* run_dslx_tests on samples with a prologue and on candidates with imports *)
(* and directives: the first attempt's call, after the candidate passed     *)
(* the fence check.                                                         *)

\* The prologues explored: none; a directive and an indented line; the import
\* between blanks; the import followed by a comment; a fenced prologue; an
\* unclosed fence; a directive with two tokens.
RunPrologues ==
    {None,
     Some(<<"// dslx_run_flags:", SP, "--a=1", NL, SP, "struct_p", SP>>),
     Some(<<SP, IMPORT_STD, SP, NL, "struct_p">>),
     Some(<<IMPORT_STD, SP, "// std", NL, "struct_p">>),
     Some(<<FENCE, NL, "struct_p", NL, FENCE>>),
     Some(<<FENCE, NL, "struct_p">>),
     Some(<<"// dslx_run_flags:", SP, "--b=2", SP, "--a=1">>)}

\* The tests explored: bare, fenced, with an unclosed fence.
RunTests == {<<"TESTS">>, <<FENCE, NL, "TESTS", NL, FENCE>>, <<FENCE, NL, "TESTS">>}

RunSamples ==
    {[prompt |-> <<"PROMPT">>, signature |-> <<"SIG">>, tests |-> t,
      prologue |-> p, requirements |-> None] : p \in RunPrologues, t \in RunTests}

\* The replies explored: a block; unfenced code; a block that imports; a block
\* whose comment mentions the import; blocks with directives, one of them
\* with a token that lacks the two dashes.
RunReplies ==
    {<<FENCE, "dslx", NL, "fn_a", NL, FENCE>>,
     <<SP, "fn_b", NL>>,
     <<FENCE, NL, IMPORT_STD, NL, "fn_a", NL, FENCE>>,
     <<FENCE, NL, "// uses import std;", NL, "fn_a", NL, FENCE>>,
     <<FENCE, NL, "// dslx_run_flags:", SP, "--a=1", SP, "--warnings_as_errors=false",
       NL, "fn_a", NL, FENCE>>,
     <<FENCE, NL, "// dslx_run_flags:", SP, "foo", NL, "fn_a", NL, FENCE>>}

RunInit ==
    /\ cfg \in {c \in Configs : c.max_retries = 1 /\ ~c.run_critic_step}
    /\ sample \in RunSamples
    /\ generated_code \in {Strip(r) : r \in RunReplies}
    /\ pc = "run"
    /\ attempt = 1
    /\ feedback_from_last_iteration = None
    /\ all_generated = <<generated_code>>
    /\ run_result = NoRunResult
    /\ critic_result = NoCriticResult
    /\ messages = InitialMessages
                     \o <<Turn("user", ProblemMessage(sample.prompt, sample.signature,
                                                      sample.prologue)),
                          Turn("assistant", generated_code)>>
    /\ critic_messages = <<>>
    /\ critic_attempt = 0
    /\ last_text = <<>>
    /\ files = {}
    /\ full_code = None
    /\ result = NoResult
    /\ exception = "none"
    /\ history = <<[AttemptRecord(1, "generate_code", <<>>) EXCEPT
                        !.candidate = Some(generated_code), !.fence = "ok"]>>
    /\ calls = <<Call("generate_code", 1)>>
    /\ main_pc = "none"
    /\ sample_files = <<>>
    /\ results = <<>>
    /\ scorecard = <<>>
    /\ call_text = <<>>
    /\ call_result = NotCalled
    /\ dir_texts = <<>>
    /\ dir_call = NoDirectiveCall
    /\ tmp = NoTemp
    /\ gen = NoGen
    /\ v2x = NoV2x

RunNext == run_dslx_tests

RunSpec == RunInit /\ [][RunNext]_vars

----------------------------------------------------------------------------
(* evaluate_sample called with models that need a reasoning effort. *)

\* The arguments explored: a generator model that needs an effort or not, a
\* critic model that needs one, and each effort given or None.
EffortConfigs ==
    {[max_retries |-> n, run_critic_step |-> TRUE, model |-> m,
      reasoning_effort |-> e, critic_model |-> "o3-mini",
      critic_reasoning_effort |-> ce] :
        n \in 1..2, m \in {"o3-mini", "gpt-4o"},
        e \in {None, Some(<<"high">>)}, ce \in {None, Some(<<"high">>)}}

EffortInit ==
    /\ cfg \in EffortConfigs
    /\ sample \in Samples
    /\ pc = "loop"
    /\ attempt = 0
    /\ feedback_from_last_iteration = None
    /\ generated_code = <<>>
    /\ all_generated = <<>>
    /\ run_result = NoRunResult
    /\ critic_result = NoCriticResult
    /\ messages = InitialMessages
    /\ critic_messages = <<>>
    /\ critic_attempt = 0
    /\ last_text = <<>>
    /\ files = {}
    /\ full_code = None
    /\ result = NoResult
    /\ exception = "none"
    /\ history = <<>>
    /\ calls = <<>>
    /\ main_pc = "none"
    /\ sample_files = <<>>
    /\ results = <<>>
    /\ scorecard = <<>>
    /\ call_text = <<>>
    /\ call_result = NotCalled
    /\ dir_texts = <<>>
    /\ dir_call = NoDirectiveCall
    /\ tmp = NoTemp
    /\ gen = NoGen
    /\ v2x = NoV2x

EffortSpec == EffortInit /\ [][Next]_vars

----------------------------------------------------------------------------
(* The compat TemporaryDirectory (tempcompat.py), used by evaluate_sample
   as a context manager around its attempts. *)

\* Largest number of artifacts written into the directory.
MaxArtifacts == 3

\* The variables of evaluate_sample, of main and of the direct helper calls.
eval_vars ==
    <<cfg, sample, pc, attempt, feedback_from_last_iteration, generated_code,
      all_generated, run_result, critic_result, messages, critic_messages,
      critic_attempt, last_text, files, full_code, result, exception, history, calls,
      main_pc, sample_files, results, scorecard, call_text, call_result, dir_texts, dir_call>>

\* evaluate_sample, main and the direct helper calls are not in use.
EvalIdle ==
    /\ cfg \in {c \in Configs : c.max_retries = 1 /\ c.run_critic_step}
    /\ sample \in {s \in Samples : ~s.requirements.some}
    /\ pc = "idle"
    /\ attempt = 0
    /\ feedback_from_last_iteration = None
    /\ generated_code = <<>>
    /\ all_generated = <<>>
    /\ run_result = NoRunResult
    /\ critic_result = NoCriticResult
    /\ messages = <<>>
    /\ critic_messages = <<>>
    /\ critic_attempt = 0
    /\ last_text = <<>>
    /\ files = {}
    /\ full_code = None
    /\ result = NoResult
    /\ exception = "none"
    /\ history = <<>>
    /\ calls = <<>>
    /\ main_pc = "none"
    /\ sample_files = <<>>
    /\ results = <<>>
    /\ scorecard = <<>>
    /\ call_text = <<>>
    /\ call_result = NotCalled
    /\ dir_texts = <<>>
    /\ dir_call = NoDirectiveCall

\* sys.version_info >= (3, 12) selects the class: the standard library's
\* own, or the subclass defined here.
Branches == {"native", "backport"}

\* TemporaryDirectory(delete=d) has returned: the directory is made and the
\* base class has registered its finalizer on the object.
TempInit ==
    /\ tmp \in {[branch |-> b, delete |-> d, stage |-> "created", exists |-> TRUE,
                 finalizer |-> "alive", artifacts |-> {}, explicit |-> FALSE] :
                    b \in Branches, d \in BOOLEAN}
    /\ gen = NoGen
    /\ v2x = NoV2x
    /\ EvalIdle

\* _rmtree(self.name): the directory and what was written into it are gone.
Rmtree(t) == [t EXCEPT !.exists = FALSE, !.artifacts = {}]

\* The base class's cleanup(): the finalizer is detached and the directory
\* removed.
BaseCleanup(t) == [Rmtree(t) EXCEPT !.finalizer = "detached"]

\* cleanup() of the class in use: the standard library's on the native
\* branch, the override of lines 42-45 on the back-port branch.
Cleanup(t) ==
    IF t.branch = "backport" /\ ~t.delete THEN t ELSE BaseCleanup(t)

\* __exit__ of the class in use: the native one calls cleanup() only when
\* delete is set, the inherited one of the back-port always calls cleanup().
Exit(t) ==
    IF t.branch = "native"
    THEN (IF t.delete THEN Cleanup(t) ELSE t)
    ELSE Cleanup(t)

\* What the finalizer registered by the base class does when the object is
\* collected or the interpreter exits: the native one removes the directory
\* when delete is set, the one the back-port inherits removes it always.
Finalize(t) ==
    IF t.finalizer # "alive" THEN t
    ELSE IF t.branch = "native" /\ ~t.delete THEN [t EXCEPT !.finalizer = "dead"]
    ELSE [Rmtree(t) EXCEPT !.finalizer = "dead"]

\* What the operations on the directory object leave alone.
TempFrame == UNCHANGED <<eval_vars, gen, v2x>>

\* with TemporaryDirectory(...) as tmpdir: the block is entered.
TempEnter ==
    /\ tmp.stage = "created"
    /\ tmp' = [tmp EXCEPT !.stage = "entered"]
    /\ TempFrame

\* An artifact of attempt k is written into the directory, under the name
\* the object or its __enter__ gave.
TempWrite ==
    /\ tmp.stage \in {"created", "entered"}
    /\ tmp.exists
    /\ \E k \in 1..MaxArtifacts :
         /\ k \notin tmp.artifacts
         /\ tmp' = [tmp EXCEPT !.artifacts = @ \cup {k}]
    /\ TempFrame

\* The block is left: __exit__.
TempExit ==
    /\ tmp.stage = "entered"
    /\ tmp' = [Exit(tmp) EXCEPT !.stage = "exited"]
    /\ TempFrame

\* cleanup() is called on the object by its owner.
TempCleanup ==
    /\ tmp.stage \in {"created", "exited"}
    /\ ~tmp.explicit
    /\ tmp' = [Cleanup(tmp) EXCEPT !.explicit = TRUE]
    /\ TempFrame

\* The object is discarded: the last reference goes, or the interpreter
\* exits, and the finalizer runs if it is still alive.
TempDiscard ==
    /\ tmp.stage \in {"created", "exited"}
    /\ tmp' = [Finalize(tmp) EXCEPT !.stage = "discarded"]
    /\ TempFrame

TempNext ==
    \/ TempEnter
    \/ TempWrite
    \/ TempExit
    \/ TempCleanup
    \/ TempDiscard

TempSpec == TempInit /\ [][TempNext]_vars

----------------------------------------------------------------------------
(* generate_tests (gen_float_tests.py): one test per case of testfloat_gen. *)

\* Largest number of cases testfloat_gen yields.
MaxCases == 3

PRECISION_TO_DSLX_TYPE == [p \in {"f16", "f32"} |-> IF p = "f16" THEN 16 ELSE 32]
PRECISION_TO_EXP_SIZE == [p \in {"f16", "f32"} |-> IF p = "f16" THEN 5 ELSE 8]

\* The rounding modes explored, with their u3 values.
TESTFLOAT_GEN_ROUNDING == [r \in {"near_even", "max"} |-> IF r = "near_even" THEN 0 ELSE 2]

\* The exception flags of testfloat_gen, by bit, and the IEEE status bits.
TESTFLOAT_GEN_FLAGS ==
    [k \in {16, 4, 2, 1} |->
        IF k = 16 THEN "invalid" ELSE IF k = 4 THEN "huge" ELSE IF k = 2 THEN "tiny" ELSE "inexact"]
FLAGS_IEEE_STATUS ==
    [st \in {"invalid", "infinite", "huge", "tiny", "inexact", "zero"} |->
        IF st = "invalid" THEN 4 ELSE IF st = "infinite" THEN 2 ELSE IF st = "huge" THEN 16
        ELSE IF st = "tiny" THEN 8 ELSE IF st = "inexact" THEN 32 ELSE 1]

\* The hexadecimal digits, upper case as testfloat_gen writes them and lower
\* case as the format specifier x writes them.
UpperDigits == <<"0", "1", "2", "3", "4", "5", "6", "7", "8", "9", "A", "B", "C", "D", "E", "F">>
LowerDigits == <<"0", "1", "2", "3", "4", "5", "6", "7", "8", "9", "a", "b", "c", "d", "e", "f">>

DigitValue(d) == (CHOOSE i \in 1..16 : UpperDigits[i] = d) - 1

RECURSIVE HexToInt(_)
\* int(h, base=16), h a sequence of digits.
HexToInt(h) ==
    IF h = <<>> THEN 0
    ELSE 16 * HexToInt(SubSeq(h, 1, Len(h) - 1)) + DigitValue(h[Len(h)])

RECURSIVE Bin(_)
\* format(n, "b"): the binary digits of n without leading zeros.
Bin(n) ==
    IF n < 2 THEN <<IF n = 1 THEN "1" ELSE "0">>
    ELSE Append(Bin(n \div 2), IF n % 2 = 1 THEN "1" ELSE "0")

RECURSIVE ZFill(_, _)
\* str.zfill(width): zeros on the left up to the width, nothing cut.
ZFill(b, width) == IF Len(b) >= width THEN b ELSE ZFill(<<"0">> \o b, width)

RECURSIVE HexLower(_)
\* format(n, "x")
HexLower(n) ==
    IF n < 16 THEN <<LowerDigits[n + 1]>>
    ELSE Append(HexLower(n \div 16), LowerDigits[(n % 16) + 1])

\* The bits of hexadecimal value h at the width of the precision.
BitsOf(h, precision) == ZFill(Bin(HexToInt(h)), PRECISION_TO_DSLX_TYPE[precision])

\* text.startswith(prefix)
StartsWith(text, prefix) ==
    Len(text) >= Len(prefix) /\ SubSeq(text, 1, Len(prefix)) = prefix

\* '1' * n
Ones(n) == [i \in 1..n |-> "1"]

\* set(bits) == {c}: bits is not empty and holds nothing but c.
AllAre(bits, c) == bits # <<>> /\ \A i \in 1..Len(bits) : bits[i] = c

\* Variant: the exponent is looked for from the sign bit on.
NotNumber_FromSign(h, precision) ==
    StartsWith(BitsOf(h, precision), Ones(PRECISION_TO_EXP_SIZE[precision]))

\* Lines 141-142: b[1:].startswith('1' * exp_size)
NotNumber(h, precision) ==
    StartsWith(Tail(BitsOf(h, precision)), Ones(PRECISION_TO_EXP_SIZE[precision]))

\* Lines 89-90: the fields of one line of testfloat_gen's output.
CaseOf(data) ==
    [inp |-> SubSeq(data, 1, Len(data) - 2), out |-> data[Len(data) - 1],
     flags |-> data[Len(data)]]

\* inp + [out]
Operands(c) == Append(c.inp, c.out)

\* Lines 139-144: the case is skipped.
Skipped(args, c) ==
    /\ args.only_numbers
    /\ \E j \in 1..Len(Operands(c)) : NotNumber(Operands(c)[j], args.precision)

\* Lines 95-106: the status word of a case.
StatusInt(args, c) ==
    IF ~args.include_status THEN 0
    ELSE LET flags == HexToInt(c.flags)
             out_bin == BitsOf(c.out, args.precision)
             exp_size == PRECISION_TO_EXP_SIZE[args.precision]
             status ==
                 {TESTFLOAT_GEN_FLAGS[k] : k \in {b \in DOMAIN TESTFLOAT_GEN_FLAGS :
                                                    (flags \div b) % 2 = 1}}
                 \cup (IF AllAre(Tail(out_bin), "0") THEN {"zero"} ELSE {})
                 \cup (IF /\ AllAre(SubSeq(out_bin, 2, 1 + exp_size), "1")
                          /\ AllAre(SubSeq(out_bin, 2 + exp_size, Len(out_bin)), "0")
                       THEN {"infinite"} ELSE {})
             Bit(st) == IF st \in status THEN FLAGS_IEEE_STATUS[st] ELSE 0
         IN  Bit("invalid") + Bit("infinite") + Bit("huge") + Bit("tiny")
                 + Bit("inexact") + Bit("zero")

RECURSIVE OperandList(_, _)
\* Lines 117-120: the operands, separated by commas.
OperandList(vs, size) ==
    IF vs = <<>> THEN <<>>
    ELSE (IF Len(vs) = 1 THEN <<>> ELSE OperandList(SubSeq(vs, 1, Len(vs) - 1), size) \o <<", ">>)
         \o <<"uN[", ToString(size), "]:0x">> \o vs[Len(vs)]

\* Variant: the tests are numbered by the one given first, whatever i is.
TestName_Fixed(args, i) ==
    <<args.tests_name>>
        \o (IF args.rounding.some THEN <<"_", args.rounding.v>> ELSE <<>>)
        \o <<"_", ToString(0)>>

\* Lines 108-113: tests_name, the rounding suffix, and the index of the case.
TestName(args, i) ==
    <<args.tests_name>>
        \o (IF args.rounding.some THEN <<"_", args.rounding.v>> ELSE <<>>)
        \o <<"_", ToString(i)>>

\* create_test(args, inp, out, flags, i)
create_test(args, c, i) ==
    <<"#[test]", NL, "fn ">> \o TestName(args, i) \o <<"() {", NL>>
        \o <<"    ", args.tested_func, "(">>
        \o OperandList(Operands(c), PRECISION_TO_DSLX_TYPE[args.precision])
        \o (IF args.rounding.some
            THEN <<", u3:", ToString(TESTFLOAT_GEN_ROUNDING[args.rounding.v])>> ELSE <<>>)
        \o (IF args.include_status THEN <<", u6:0x">> \o HexLower(StatusInt(args, c)) ELSE <<>>)
        \o <<");", NL, "}", NL>>

\* Variant: a line feed before every test.
Separator_Always(first_test) == <<NL>>

\* Line 146: nothing before the first test, a line feed before the others.
Separator(first_test) == IF first_test THEN <<>> ELSE <<NL>>

\* Digits as a sequence: "3C00" is Hex4("3", "C", "0", "0").
Hex4(a, b, c, d) == <<a, b, c, d>>

\* Lines testfloat_gen may print for a function of two operands or of one:
\* the operands, the result and the exception flags.
CaseLines ==
    [f16 |-> {<<Hex4("3", "C", "0", "0"), Hex4("3", "C", "0", "0"), Hex4("4", "0", "0", "0"), <<"0", "0">>>>,
              <<Hex4("7", "C", "0", "0"), Hex4("3", "C", "0", "0"), Hex4("7", "C", "0", "0"), <<"0", "0">>>>,
              <<Hex4("7", "B", "F", "F"), Hex4("7", "B", "F", "F"), Hex4("7", "C", "0", "0"), <<"0", "5">>>>,
              <<Hex4("F", "E", "0", "0"), Hex4("3", "C", "0", "0"), Hex4("F", "E", "0", "0"), <<"1", "0">>>>,
              <<Hex4("0", "0", "0", "0"), Hex4("8", "0", "0", "0"), Hex4("0", "0", "0", "0"), <<"0", "0">>>>,
              <<Hex4("B", "C", "0", "0"), Hex4("7", "E", "0", "0"), <<"1", "0">>>>},
     f32 |-> {<<Hex4("3", "F", "8", "0") \o Hex4("0", "0", "0", "0"),
                Hex4("3", "F", "8", "0") \o Hex4("0", "0", "0", "0"),
                Hex4("4", "0", "0", "0") \o Hex4("0", "0", "0", "0"), <<"0", "0">>>>,
              <<Hex4("7", "F", "7", "F") \o Hex4("F", "F", "F", "F"),
                Hex4("7", "F", "7", "F") \o Hex4("F", "F", "F", "F"),
                Hex4("7", "F", "8", "0") \o Hex4("0", "0", "0", "0"), <<"0", "5">>>>,
              <<Hex4("7", "F", "C", "0") \o Hex4("0", "0", "0", "0"),
                Hex4("0", "0", "0", "0") \o Hex4("7", "C", "0", "0"),
                Hex4("7", "F", "C", "0") \o Hex4("0", "0", "0", "0"), <<"0", "0">>>>,
              <<Hex4("0", "0", "0", "0") \o Hex4("7", "C", "0", "0"),
                Hex4("0", "0", "0", "0") \o Hex4("0", "0", "0", "1"),
                Hex4("0", "0", "0", "0") \o Hex4("7", "C", "0", "1"), <<"0", "1">>>>}]

\* No rounding mode was chosen.
NoRounding == [some |-> FALSE, v |-> ""]

\* The options explored.
GenArgs ==
    {[only_numbers |-> n, precision |-> p, rounding |-> r, include_status |-> st,
      tests_name |-> "generated_test", tested_func |-> "test_fp_add"] :
        n \in BOOLEAN, p \in {"f16", "f32"},
        r \in {NoRounding, [some |-> TRUE, v |-> "max"]}, st \in BOOLEAN}

\* The runs of testfloat_gen explored: up to MaxCases lines for the precision.
GenRuns(p) == UNION {[1..n -> CaseLines[p]] : n \in 0..MaxCases}

\* generate_tests has opened the output file and is about to pull the first
\* case.
GenInit ==
    /\ \E a \in GenArgs :
         \E ls \in GenRuns(a.precision) :
            gen = [pc |-> "loop", args |-> a, lines |-> ls, i |-> 0, first_test |-> TRUE,
                   output |-> <<>>]
    /\ tmp = NoTemp
    /\ v2x = NoV2x
    /\ EvalIdle

GenFrame == UNCHANGED <<eval_vars, tmp, v2x>>

\* Lines 138-144: the next case is skipped.
GenSkip ==
    /\ gen.pc = "loop"
    /\ gen.i < Len(gen.lines)
    /\ Skipped(gen.args, CaseOf(gen.lines[gen.i + 1]))
    /\ gen' = [gen EXCEPT !.i = @ + 1]
    /\ GenFrame

\* Lines 138, 146-150: a test for the next case is written.
GenWrite ==
    /\ gen.pc = "loop"
    /\ gen.i < Len(gen.lines)
    /\ ~Skipped(gen.args, CaseOf(gen.lines[gen.i + 1]))
    /\ gen' = [gen EXCEPT !.i = @ + 1,
                          !.first_test = FALSE,
                          !.output = @ \o Separator(gen.first_test)
                                       \o create_test(gen.args, CaseOf(gen.lines[gen.i + 1]),
                                                      gen.i)]
    /\ GenFrame

\* The cases are used up: generate_tests returns.
GenReturn ==
    /\ gen.pc = "loop"
    /\ gen.i = Len(gen.lines)
    /\ gen' = [gen EXCEPT !.pc = "done"]
    /\ GenFrame

GenNext ==
    \/ GenSkip
    \/ GenWrite
    \/ GenReturn

GenSpec == GenInit /\ [][GenNext]_vars

----------------------------------------------------------------------------
(* The translation loop of v2x.py (main, lines 148-225). *)

\* Largest attempt number explored.
MaxV2xAttempts == 3

\* The files of the temporary directory.
V2xFileNames == {"candidate.x", "reference.x", "prove_equiv.x", "final_candidate.x"}

\* A file that was not written, and what is written into the files.
Absent == [kind |-> "absent", code |-> <<>>]
Written(kind, code) == [kind |-> kind, code |-> code]

\* What the interpreter prints (stdout and stderr together), and what the
\* prover prints and returns.
CheckOutputs == {<<"PASSED">>, <<"Error:", SP, "TypeMismatch">>, <<"PASSED", NL, "ERROR">>}
ProofRuns == {[returncode |-> 0, output |-> <<"proved">>],
              [returncode |-> 1, output |-> <<"counterexample">>]}

\* str.lower() on the tokens that can stand in the interpreter's output.
LowerToken(tok) ==
    IF tok = "Error:" THEN "error:" ELSE IF tok = "ERROR" THEN "error"
    ELSE IF tok = "PASSED" THEN "passed" ELSE IF tok = "TypeMismatch" THEN "typemismatch"
    ELSE tok

\* Variant: only an output that starts with the word counts as a failure.
CheckSucceeded_Prefix(output) ==
    ~(output # <<>> /\ LowerToken(output[1]) \in {"error", "error:"})

\* Line 111: 'error' not in result.lower()
CheckSucceeded(output) ==
    ~\E i \in 1..Len(output) : LowerToken(output[i]) \in {"error", "error:"}

\* Line 70: the prover's exit code is zero.
ProofSucceeded(run) == run.returncode = 0

RECURSIVE FeedbackText(_, _)
\* Lines 154-156: every earlier proposal and its error, numbered from 1.
FeedbackText(feedback_history, n) ==
    IF n = 0 THEN <<>>
    ELSE FeedbackText(feedback_history, n - 1)
         \o <<NL, "--- Attempt ", ToString(n), " proposal ---", NL>>
         \o feedback_history[n].proposal
         \o <<NL, NL, "--- Attempt ", ToString(n), " error ---", NL>>
         \o feedback_history[n].error \o <<NL>>

\* The options explored; max_retries is parsed and never read.
V2xOpts ==
    {[prove |-> b, max_retries |-> n, model |-> "gpt-4o", reasoning_effort |-> Some(<<"high">>)] :
        b \in BOOLEAN, n \in {0, 1, MaxRetries}}

V2X_PROMPT == <<"V2X_PROMPT">>
V2X_SIGNATURE == <<"SIG">>

\* Line 148-150: the temporary directory is entered, the loop is about to
\* start; the CodeGenerator holds the prompt as its first turn.
V2xInit ==
    /\ \E o \in V2xOpts :
         v2x = [pc |-> "loop", opts |-> o, attempt |-> 1, feedback_history |-> <<>>,
                generated_code |-> <<>>, messages |-> <<Turn("user", V2X_PROMPT)>>,
                files |-> [f \in V2xFileNames |-> Absent], exception |-> "none",
                checked |-> <<>>, proved |-> <<>>, calls |-> <<>>]
    /\ tmp = NoTemp
    /\ gen = NoGen
    /\ EvalIdle

V2xFrame == UNCHANGED <<eval_vars, tmp, gen>>

\* The arguments of the generator call of this attempt (lines 153-159).
V2xMethod(s) == IF s.feedback_history # <<>> THEN "provide_feedback" ELSE "generate_code"
V2xUserMessage(s) ==
    IF s.feedback_history # <<>>
    THEN ErrorMessage(FeedbackText(s.feedback_history, Len(s.feedback_history)))
    ELSE ProblemMessage(V2X_PROMPT, V2X_SIGNATURE, None)

\* Line 162: the first fn of the candidate is renamed.
Renamed(code) == Written("renamed", code)

\* Lines 152-168: the generator is called and its reply de-fenced and
\* written to candidate.x; the chat call or strip_fences may raise.
V2xGenerate ==
    /\ v2x.pc = "loop"
    /\ v2x.attempt <= MaxV2xAttempts
    /\ LET with_user == Append(v2x.messages, Turn("user", V2xUserMessage(v2x)))
           called == Append(v2x.calls, Call(V2xMethod(v2x), v2x.attempt))
       IN  IF EffortAssertFails(v2x.opts.model, v2x.opts.reasoning_effort)
           THEN v2x' = [v2x EXCEPT !.messages = with_user, !.calls = called,
                                   !.pc = "raised", !.exception = "AssertionError"]
           ELSE \/ v2x' = [v2x EXCEPT !.messages = with_user, !.calls = called,
                                      !.pc = "raised", !.exception = "APIError"]
                \/ \E reply \in GeneratorReplies :
                     LET assistant_response == Strip(reply)
                         cand_code == strip_fences(assistant_response)
                         answered == Append(with_user, Turn("assistant", assistant_response))
                     IN  IF ~cand_code.ok
                         THEN v2x' = [v2x EXCEPT !.messages = answered, !.calls = called,
                                                 !.generated_code = assistant_response,
                                                 !.pc = "raised", !.exception = "ValueError"]
                         ELSE v2x' = [v2x EXCEPT !.messages = answered, !.calls = called,
                                                 !.generated_code = assistant_response,
                                                 !.files["candidate.x"] = Renamed(cand_code.value),
                                                 !.pc = "check"]
    /\ V2xFrame

\* Lines 101-104: the program run_dslx_check writes to candidate.x.
V2xFullCode(generated) ==
    Written("full", (IF \E i \in 1..Len(generated) : generated[i] \in HoldsImportStd
                     THEN <<>> ELSE <<IMPORT_STD>>)
                    \o <<NL, NL>> \o strip_fences(generated).value
                    \o <<NL, NL, "// -- tests", NL, NL, "TESTS">>)

\* What v2x records of a rejected attempt (lines 175-176, 216-217).
Rejected(s, error) ==
    [s EXCEPT !.feedback_history = Append(@, [proposal |-> s.generated_code, error |-> error]),
              !.attempt = @ + 1,
              !.pc = "loop"]

\* Lines 169-177, 178, 219-225: run_dslx_check; a failure starts the next
\* attempt, a success goes on to the proof or, without proving, returns.
V2xCheck ==
    /\ v2x.pc = "check"
    /\ \E output \in CheckOutputs :
         LET ran == [v2x EXCEPT !.files["candidate.x"] = V2xFullCode(v2x.generated_code),
                                !.calls = Append(@, Call("run_dslx_check", v2x.attempt)),
                                !.checked = Append(@, [attempt |-> v2x.attempt,
                                                        success |-> CheckSucceeded(output)])]
         IN  IF ~CheckSucceeded(output) THEN v2x' = Rejected(ran, output)
             ELSE IF v2x.opts.prove THEN v2x' = [ran EXCEPT !.pc = "prove"]
             ELSE v2x' = [ran EXCEPT !.files["final_candidate.x"] =
                                          Written("final", strip_fences(v2x.generated_code).value),
                                     !.pc = "returned"]
    /\ V2xFrame

\* Lines 178-218: the files of the proof are written and the prover run; a
\* success returns, a failure starts the next attempt.
V2xProve ==
    /\ v2x.pc = "prove"
    /\ \E run \in ProofRuns :
         LET cand_code == strip_fences(v2x.generated_code).value
             ran == [v2x EXCEPT !.files["reference.x"] = Written("reference", <<"REFERENCE">>),
                                !.files["candidate.x"] = Renamed(cand_code),
                                !.files["prove_equiv.x"] = Written("equiv", <<"prop_equiv">>),
                                !.calls = Append(@, Call("run_prove_quickcheck", v2x.attempt)),
                                !.proved = Append(@, [attempt |-> v2x.attempt,
                                                       success |-> ProofSucceeded(run)])]
         IN  IF ProofSucceeded(run) THEN v2x' = [ran EXCEPT !.pc = "returned"]
             ELSE v2x' = Rejected(ran, run.output)
    /\ V2xFrame

V2xNext ==
    \/ V2xGenerate
    \/ V2xCheck
    \/ V2xProve

V2xSpec == V2xInit /\ [][V2xNext]_vars

----------------------------------------------------------------------------
(* Vocabulary of the properties. *)

GeneratorKinds == {"generate_code", "provide_feedback"}
CriticKinds == {"run_critic", "critic_chat"}

\* The positions in calls of attempt k's calls of the given kinds.
CallsOf(k, kinds) == {i \in 1..Len(calls) : calls[i].attempt = k /\ calls[i].kind \in kinds}

Attempts == 1..Len(history)

\* Iteration k of the retry loop has run to its end (by falling through, by
\* continue or by return), as opposed to being under way or left by an
\* exception.
Completed(k) == k < Len(history) \/ (k = Len(history) /\ pc \in {"loop", "returned"})

\* Attempt k reached DONE: its run succeeded and the critic either was not
\* run or gave an ok verdict.
ReachedDone(k) ==
    /\ Completed(k)
    /\ history[k].run = "success"
    /\ history[k].critic \in {"none", "ok"}

\* The attempt budget: the configured maximum, or 1 when that is below 1.
Budget == IF cfg.max_retries < 1 THEN 1 ELSE cfg.max_retries

\* The requirements text is present and non-empty and the critic step is on.
CriticConfigured == cfg.run_critic_step /\ sample.requirements.some /\ sample.requirements.v # <<>>

\* The feedback text attempt k's failure calls for.
ExpectedFeedback(k) ==
    CASE history[k].fence = "error" ->
            <<"Your response did not include a *balanced* triple-backtick fenced code block. Error details: ">>
            \o strip_fences(history[k].candidate.v).error
            \o <<NL, "Please output the DSLX solution wrapped in <fence> fences as previously requested.">>
      [] history[k].run = "failure" -> history[k].stderr.v
      [] history[k].critic = "rejected" ->
            <<"Requirements check failed (tests passed). Please revise the implementation to satisfy the requirements.",
              NL, NL, "Critic message: ">> \o history[k].critic_message.v \o <<NL>>
      [] OTHER -> <<"no feedback">>

Fenced(t) == <<FENCE, NL>> \o t \o <<NL, FENCE, NL>>

----------------------------------------------------------------------------
(* Properties of the retry loop. *)

\* C1: the retry loop stops at the first attempt that reaches DONE: once an
\* attempt's run has succeeded and the critic was not run or said ok,
\* evaluate_sample has returned success = true, that attempt is the last
\* one started, and every generator, toolchain and critic call on record
\* belongs to that attempt or an earlier one, whatever budget remains.
C1_StopsAtFirstDone ==
    \A k \in Attempts :
        ReachedDone(k) =>
            /\ pc = "returned"
            /\ result.some /\ result.v.success
            /\ k = Len(history) /\ attempt = k
            /\ \A i \in 1..Len(calls) : calls[i].attempt <= k
            /\ calls[Len(calls)].kind \in {"run_dslx_tests", "critic_chat"}
            /\ \A j \in 1..(k - 1) : ~ReachedDone(j)

\* C1 witness: success was returned on a second attempt while the budget
\* allowed a third.
C1_Witness ==
    /\ pc = "returned" /\ result.v.success
    /\ attempt = 2 /\ Budget = 3
    /\ ReachedDone(2)

\* C2: first_attempt_success is true iff attempt 1 reached DONE; a successful
\* run on attempt 1 with no critic configured or no requirements gives
\* success with first_attempt_success; first_attempt_success never comes
\* with success = false.
C2_FirstAttemptSuccess ==
    /\ pc = "returned" =>
          /\ result.some
          /\ result.v.first_attempt_success <=> (Len(history) >= 1 /\ ReachedDone(1))
          /\ result.v.first_attempt_success => result.v.success
    /\ (/\ Len(history) >= 1
        /\ history[1].run = "success"
        /\ ~CriticConfigured
        /\ ~(attempt = 1 /\ pc = "check")) =>
          /\ pc = "returned"
          /\ result.v.success /\ result.v.first_attempt_success

\* C2 witness: success was returned on attempt 1 with the critic step on
\* and the critic skipped.
C2_Witness ==
    /\ pc = "returned" /\ result.v.success /\ result.v.first_attempt_success
    /\ attempt = 1 /\ history[1].critic = "none" /\ cfg.run_critic_step


\* Every attempt so far ran the toolchain and the run failed.
EveryRunFailed == Len(history) >= 1 /\ \A k \in Attempts : history[k].run = "failure"

C4_FenceFailure ==
    \A k \in Attempts :
        history[k].fence = "error" =>
            /\ ~strip_fences(history[k].candidate.v).ok
            /\ CallsOf(k, {"run_dslx_tests"} \cup CriticKinds) = {}
            /\ history[k].run = "none" /\ history[k].critic = "none"
            /\ \A f \in files : f.attempt # k
            /\ run_result.some => run_result.v.command.x_path.attempt # k
            /\ k < Len(history) =>
                  /\ history[k + 1].method = "provide_feedback"
                  /\ history[k + 1].arg =
                        Fenced(<<"Your response did not include a *balanced* triple-backtick fenced code block. Error details: ">>
                               \o strip_fences(history[k].candidate.v).error
                               \o <<NL, "Please output the DSLX solution wrapped in <fence> fences as previously requested.">>)
            /\ k = Len(history) =>
                  /\ exception = "none"
                  /\ pc \in {"loop", "returned"}
                  /\ pc = "returned" => k = Budget

\* C4 witness: attempt 1 failed on a run with a non-empty stderr, attempt 2
\* had a fence error, and attempt 3 has been asked for.
C4_Witness ==
    /\ Len(history) = 3
    /\ history[1].run = "failure" /\ history[1].stderr.v # <<>>
    /\ history[2].fence = "error"
    /\ pc = "validate"


\* C5: the critic is invoked on an attempt iff that attempt's run succeeded
\* and the requirements text is present and non-empty and the critic step
\* is on, and then once; with the requirements absent or empty it is never
\* invoked, and a successful run then ends the loop with success.
C5_CriticIffConfigured ==
    /\ \A k \in Attempts :
          /\ CallsOf(k, {"run_critic"}) # {} <=>
                /\ history[k].run = "success"
                /\ CriticConfigured
                /\ ~(k = attempt /\ pc = "check")
          /\ Cardinality(CallsOf(k, {"run_critic"})) <= 1
    /\ ~(sample.requirements.some /\ sample.requirements.v # <<>>) =>
          /\ \A i \in 1..Len(calls) : calls[i].kind \notin CriticKinds
          /\ ~critic_result.some
          /\ \A k \in Attempts :
                (history[k].run = "success" /\ ~(k = attempt /\ pc = "check")) =>
                    (pc = "returned" /\ result.v.success /\ k = Len(history))

\* C5 witness: attempt 1 failed its run and had no critic call; attempt 2
\* succeeded its run and the critic was invoked.
C5_Witness ==
    /\ Len(history) = 2
    /\ history[1].run = "failure" /\ CallsOf(1, CriticKinds) = {}
    /\ history[2].run = "success" /\ CallsOf(2, {"run_critic"}) # {}

\* C6: a critic verdict that is not ok makes a successful run non-terminal:
\* the feedback is the fixed requirements-check message holding the
\* critic's message, and the next attempt is handed it; when every attempt
\* is rejected the outcome is success = false after Budget attempts, each
\* with a successful run.
C6_CriticRejection ==
    /\ \A k \in Attempts :
          history[k].critic = "rejected" =>
              LET fb == <<"Requirements check failed (tests passed). Please revise the implementation to satisfy the requirements.",
                          NL, NL, "Critic message: ">> \o history[k].critic_message.v \o <<NL>>
              IN  /\ history[k].run = "success"
                  /\ ~history[k].done
                  /\ k = Len(history) =>
                        \/ pc = "loop" /\ feedback_from_last_iteration = Some(fb)
                        \/ pc = "returned" /\ k = Budget /\ ~result.v.success
                  /\ k < Len(history) =>
                        /\ history[k + 1].method = "provide_feedback"
                        /\ history[k + 1].arg = Fenced(fb)
    /\ (/\ pc = "returned"
        /\ Len(history) >= 1
        /\ \A k \in Attempts : history[k].critic = "rejected") =>
          /\ ~result.v.success
          /\ Len(history) = Budget
          /\ \A k \in Attempts : run_result.some /\ history[k].run = "success"

\* C6 witness: three attempts, each with a successful run and a rejecting
\* critic, and failure returned.
C6_Witness ==
    /\ pc = "returned" /\ ~result.v.success
    /\ Len(history) = 3
    /\ \A k \in Attempts : history[k].run = "success" /\ history[k].critic = "rejected"

\* C7: attempt 1 calls generate_code, every later attempt calls
\* provide_feedback, and what attempt k+1 hands over is the feedback of
\* attempt k's failure (fence error, stderr of the failed run, critic
\* rejection), also when that text is empty.
C7_FeedbackFromPreviousAttempt ==
    \A k \in Attempts :
        /\ k = 1 => history[k].method = "generate_code"
        /\ k > 1 =>
              /\ history[k].method = "provide_feedback"
              /\ history[k].arg = Fenced(ExpectedFeedback(k - 1))
        /\ CallsOf(k, GeneratorKinds) # {}
        /\ \A i \in CallsOf(k, GeneratorKinds) : calls[i].kind = history[k].method

\* C7 witness: attempt 1 failed with an empty stderr, attempt 2 with a
\* non-empty one, and attempt 3 has been asked for.
C7_Witness ==
    /\ Len(history) = 3
    /\ history[1].run = "failure" /\ history[1].stderr.v = <<>>
    /\ history[2].run = "failure" /\ history[2].stderr.v # <<>>

Terminated == pc \in {"returned", "raised"}

\* The steps an iteration still has to take, by position: the critic's
\* loop makes at most CriticLastAttempt passes and then gives up.
PcRank ==
    CASE pc = "validate" -> CriticLastAttempt + 5
      [] pc = "run" -> CriticLastAttempt + 4
      [] pc = "check" -> CriticLastAttempt + 3
      [] pc = "critic" -> CriticLastAttempt + 3 - critic_attempt
      [] pc = "critic_done" -> 1
      [] OTHER -> 0

\* A bound on the steps evaluate_sample still has to take.
Rank ==
    IF Terminated THEN 0
    ELSE 1 + (Budget - attempt) * (CriticLastAttempt + 6) + PcRank

\* The guards of the steps, position by position: at "loop" the three
\* guards (budget left without feedback, budget left with feedback, budget
\* used up) cover every state, at "critic" the two (passes left or not) do.
CanStep ==
    \/ pc = "loop" /\ (attempt < MaxAttempts(cfg) \/ attempt >= MaxAttempts(cfg))
    \/ pc = "validate"
    \/ pc = "run"
    \/ pc = "check" /\ AfterRun(run_result.v, cfg, sample) \in {"success", "failure", "critic"}
    \/ pc = "critic" /\ (critic_attempt <= CriticLastAttempt \/ critic_attempt > CriticLastAttempt)
    \/ pc = "critic_done"

\* C8: evaluate_sample terminates: while it has not returned or raised a
\* step can be taken, and every step lowers Rank, a natural number; it makes
\* at most Budget attempts, numbered consecutively from 1, with exactly one
\* generator call each; it never returns without having made an attempt,
\* so a configured maximum below 1 gives exactly one attempt.
C8_Terminates ==
    /\ [](/\ Rank \in Nat
          /\ ~Terminated => CanStep
          /\ attempt <= Budget
          /\ Len(history) = attempt
          /\ \A k \in Attempts :
                /\ history[k].index = k
                /\ Cardinality(CallsOf(k, GeneratorKinds)) = 1
          /\ \A i \in 1..Len(calls) : calls[i].attempt \in Attempts
          /\ pc = "returned" => attempt >= 1
          /\ (pc = "returned" /\ cfg.max_retries < 1) => attempt = 1)
    /\ [][Rank' < Rank]_vars

\* C8 witness: evaluate_sample returned after one attempt under a configured
\* maximum below 1.
C8_Witness ==
    /\ pc = "returned"
    /\ cfg.max_retries < 1
    /\ attempt = 1 /\ Len(history) = 1

\* C9: an attempt never sets the feedback twice; an attempt that reached
\* DONE set none; an iteration that ended without reaching DONE set exactly
\* one, and its source is the attempt's one failure: a fence error, a failed
\* run or a critic rejection, of which at most one happens per attempt.
C9_OneFeedbackSource ==
    \A k \in Attempts :
        LET src == history[k].sources
            failures == {x \in {"fence", "toolchain", "critic"} :
                            \/ x = "fence" /\ history[k].fence = "error"
                            \/ x = "toolchain" /\ history[k].run = "failure"
                            \/ x = "critic" /\ history[k].critic = "rejected"}
        IN  /\ Len(src) <= 1
            /\ Cardinality(failures) <= 1
            /\ ReachedDone(k) => src = <<>>
            /\ (Completed(k) /\ ~ReachedDone(k)) => Len(src) = 1
            /\ src # <<>> => failures = {src[1]}

\* C9 witness: three attempts that failed in the three ways.
C9_Witness ==
    /\ Len(history) = 3 /\ pc = "loop"
    /\ history[1].sources = <<"fence">>
    /\ history[2].sources = <<"toolchain">>
    /\ history[3].sources = <<"critic">>

\* C10: after a failed run on attempt k the feedback is that run's stderr,
\* whole, and the user turn of attempt k+1 carries exactly it.
C10_StderrIsFeedback ==
    \A k \in Attempts :
        history[k].run = "failure" =>
            /\ (k = Len(history) /\ pc = "loop") =>
                  /\ feedback_from_last_iteration = Some(history[k].stderr.v)
                  /\ run_result.v.stderr = history[k].stderr.v
                  /\ run_result.v.command.x_path.attempt = k
            /\ k < Len(history) =>
                  messages[2 * (k + 1)] =
                      Turn("user", <<"Error encountered:", NL>> \o Fenced(history[k].stderr.v))

\* C10 witness: attempt 1 failed with one stderr, attempt 2 with another
\* that differs from its stdout, and attempt 3 has been asked for.
C10_Witness ==
    /\ Len(history) = 3 /\ pc = "validate"
    /\ history[1].run = "failure" /\ history[2].run = "failure"
    /\ history[1].stderr # history[2].stderr
    /\ run_result.v.stdout # run_result.v.stderr

----------------------------------------------------------------------------
(* Properties of the batch driver. *)

\* C11: when a model call raises inside evaluate_sample, the error leaves
\* evaluate_sample, and main records that sample as failed and still prints
\* one scorecard line for every sample: main is never ended by the
\* exception, and once main is over the scorecard has one line per sample
\* file, a FAIL line for each sample whose evaluation raised.
\* Under MainSpec this is violated: main has no handler, so the exception ends
\* main before any scorecard line is printed.
C11_BatchSurvivesAbort ==
    /\ main_pc # "crashed"
    /\ main_pc \in {"done", "crashed"} => Len(scorecard) = Len(sample_files)

----------------------------------------------------------------------------
(* Properties of the critic. *)

\* C12: run_critic never raises because of what the critic replied: when
\* run_critic was left by an exception, that exception came from the chat
\* call or from the reasoning-effort assert, never from de-fencing or
\* reading a reply; and a verdict carrying the fixed message that no valid
\* JSON was returned has ok = false and confidence = 0.
\* Under Spec this is violated: a reply that opens a fence and never closes
\* it makes strip_fences raise at the give-up return, and a reply whose JSON
\* is no object or whose confidence is no number raises while it is read.
C12_CriticNeverRaisesOnContent ==
    /\ \A k \in Attempts :
          history[k].critic = "raised" => exception \in {"APIError", "AssertionError"}
    /\ (critic_result.some /\ critic_result.v.message = NoValidJson)
          => (~critic_result.v.ok /\ critic_result.v.confidence = 0)

\* The chat calls run_critic has made in attempt k.
CriticChats(k) == CallsOf(k, {"critic_chat"})

\* This step makes a chat call of run_critic.
CriticChatStep == pc = "critic" /\ calls' = Append(calls, Call("critic_chat", attempt))

\* C13: one run_critic invocation makes at most two model calls; while it is
\* under way its conversation holds the two opening turns and, for each
\* reply so far (none of which parsed), that reply as an assistant turn
\* followed by the corrective user turn; a chat call is made only while every
\* earlier reply of the invocation failed to parse, and it either leaves
\* run_critic (by a verdict or an exception) or has appended exactly the
\* unparsable reply and the corrective turn; so a reply that parses ends the
\* invocation in the step that receives it.
C13_CriticRetryProtocol ==
    /\ [](\A k \in Attempts : Cardinality(CriticChats(k)) <= 2)
    /\ [](pc = "critic" =>
            /\ Cardinality(CriticChats(attempt)) = critic_attempt - 1
            /\ Len(critic_messages) = 2 + 2 * (critic_attempt - 1)
            /\ \A i \in 1..(critic_attempt - 1) :
                  /\ critic_messages[2 * i + 1].role = "assistant"
                  /\ ~parse_critic_json(critic_messages[2 * i + 1].content).ok
                  /\ critic_messages[2 * i + 2] = [role |-> "user", content |-> NotValidJsonMessage]
            /\ critic_attempt > 1 => critic_messages[Len(critic_messages) - 1].content = last_text)
    /\ [][CriticChatStep =>
            /\ Cardinality(CriticChats(attempt)) < 2
            /\ \/ pc' \in {"critic_done", "raised"}
               \/ /\ pc' = "critic"
                  /\ ~parse_critic_json(last_text').ok
                  /\ critic_messages' = critic_messages \o
                        << [role |-> "assistant", content |-> last_text'],
                           [role |-> "user", content |-> NotValidJsonMessage] >>
            /\ (pc' = "critic_done" /\ critic_result'.v.message # NoValidJson)
                  => JsonLoads(critic_result'.v.raw_json).ok]_vars

\* Two replies in a row failed to parse: the second call was made after the
\* first failure, and both were answered with the corrective turn.
C13_Witness ==
    /\ pc = "critic"
    /\ critic_attempt = 3
    /\ Len(critic_messages) = 6
    /\ Cardinality(CriticChats(attempt)) = 2

\* The de-fenced text of a reply r that strip_fences accepts.
DeFenced(r) == Strip(strip_fences(r).value)

\* The reply parses as JSON after de-fencing.
ParsesAsJson(r) == strip_fences(r).ok /\ JsonLoads(DeFenced(r)).ok

\* What the JSON of such a reply holds.
DocOf(r) == JsonLoads(DeFenced(r)).doc

\* The coercions of a field, with the value an absent field stands for.
BoolOf(v) == IF v.t = "absent" THEN FALSE ELSE PyBool(v)
FloatOf(v) == IF v.t = "absent" THEN 0 ELSE PyFloat(v).n
StrOf(v) == IF v.t = "absent" THEN <<>> ELSE PyStr(v)

\* The reply is a JSON object whose confidence is absent or a number.
Readable(r) == DocOf(r).is_dict /\ DocOf(r).confidence.t \in {"absent", "num", "bool"}

\* The last reply the critic gave in attempt k.
LastReply(k) == history[k].critic_reply

C15_ConfidenceInUnitInterval ==
    critic_result.some =>
        (critic_result.v.confidence >= 0 /\ critic_result.v.confidence <= 1000)

----------------------------------------------------------------------------
(* Properties of the conversations. *)

\* This step makes a call of generate_code or provide_feedback.
GeneratorStep ==
    /\ Len(calls') = Len(calls) + 1
    /\ calls'[Len(calls')].kind \in GeneratorKinds

\* The user turn a call of the method builds from its argument.
UserTurnOf(method, arg) ==
    IF method = "generate_code"
    THEN [role |-> "user",
          content |-> sample.prompt \o <<NL, NL, "Signature:", NL>> \o sample.signature]
    ELSE [role |-> "user", content |-> <<"Error encountered:", NL>> \o arg]

\* C16: each call of generate_code or provide_feedback that returns grows
\* the conversation by exactly two turns, the user turn built from its
\* argument followed by an assistant turn holding the returned text, and
\* leaves every earlier turn as it was; no other step of evaluate_sample
\* changes the conversation.  (A call whose chat request raises has appended
\* its user turn only.)
C16_TwoTurnGrowth ==
    /\ [][(GeneratorStep /\ pc' = "validate") =>
            /\ Len(messages') = Len(messages) + 2
            /\ SubSeq(messages', 1, Len(messages)) = messages
            /\ messages'[Len(messages) + 1] =
                  UserTurnOf(history'[attempt'].method, history'[attempt'].arg)
            /\ messages'[Len(messages) + 2] = [role |-> "assistant", content |-> generated_code']
            /\ generated_code' = all_generated'[Len(all_generated')]]_vars
    /\ [][(GeneratorStep /\ pc' = "raised") =>
            messages' = Append(messages, UserTurnOf(history'[attempt'].method,
                                                    history'[attempt'].arg))]_vars
    /\ [][~GeneratorStep => messages' = messages]_vars
    /\ [](Len(messages) = 1 + 2 * Len(all_generated)
            + (IF pc = "raised" /\ Len(history) > Len(all_generated) THEN 1 ELSE 0))

\* provide_feedback has just returned in attempt 2: the conversation holds
\* the system prompt and two user/assistant pairs.
C16_Witness ==
    /\ pc = "validate"
    /\ attempt = 2
    /\ history[2].method = "provide_feedback"
    /\ Len(messages) = 5
    /\ messages[4].role = "user"
    /\ messages[5] = [role |-> "assistant", content |-> generated_code]

\* a is a prefix of b.
IsPrefix(a, b) == Len(a) <= Len(b) /\ SubSeq(b, 1, Len(a)) = a

\* Conversation c starts with a turn that is not the assistant's, and each
\* assistant turn directly follows a user or system turn.
WellFormedConversation(c) ==
    /\ c # <<>> => c[1].role \in {"user", "system"}
    /\ \A i \in 1..Len(c) :
          c[i].role = "assistant" => (i > 1 /\ c[i - 1].role \in {"user", "system"})

\* C17: the generator's and the critic's conversation are well formed in
\* every state; within one session a conversation only grows by appends;
\* every evaluate_sample call main makes starts a generator conversation that
\* holds the system prompt and nothing of an earlier sample's conversation,
\* and every run_critic invocation starts a conversation of its own.
C17_ConversationInvariant ==
    /\ [](WellFormedConversation(messages) /\ WellFormedConversation(critic_messages))
    /\ [][main_pc' = main_pc => IsPrefix(messages, messages')]_vars
    /\ [][(pc = "critic" /\ pc' = "critic") => IsPrefix(critic_messages, critic_messages')]_vars
    /\ [][(main_pc = "loop" /\ main_pc' = "evaluating") =>
            messages' = <<[role |-> "user", content |-> SYSTEM_PROMPT]>>]_vars
    /\ [][(pc = "check" /\ pc' = "critic") =>
            /\ Len(critic_messages') = 2
            /\ critic_messages'[1] = [role |-> "system", content |-> CRITIC_SYSTEM_PROMPT]
            /\ critic_messages'[2].role = "user"]_vars

\* The second sample of a batch is under evaluation and its conversation has
\* grown by two calls, after the first sample's conversation had grown too.
C17_Witness ==
    /\ main_pc = "evaluating"
    /\ Len(results) = 1
    /\ attempt = 2
    /\ Len(messages) = 5
    /\ messages[1] = [role |-> "user", content |-> SYSTEM_PROMPT]
    /\ messages[3].role = "assistant"

----------------------------------------------------------------------------
(* Properties of the order of the external calls. *)

\* Every call at a position in is is made before every call at a position
\* in js.
AllBefore(is, js) == \A i \in is, j \in js : i < j

\* C18: the external calls of one evaluation are made one at a time and in
\* order: the calls of attempt k all come before those of attempt k + 1;
\* each attempt makes exactly one generator call, then at most one toolchain
\* run, made only if the candidate passed fence validation, then at most one
\* run_critic invocation, made only if the run succeeded, whose chat calls
\* come last.
C18_CallOrder ==
    /\ [][Len(calls') <= Len(calls) + 1 /\ IsPrefix(calls, calls')]_vars
    /\ [](\A i \in 1..Len(calls), j \in 1..Len(calls) :
            i < j => calls[i].attempt <= calls[j].attempt)
    /\ [](\A i \in 1..Len(calls) : calls[i].attempt \in Attempts)
    /\ [](\A k \in Attempts :
            /\ Cardinality(CallsOf(k, GeneratorKinds)) = 1
            /\ Cardinality(CallsOf(k, {"run_dslx_tests"})) <= 1
            /\ Cardinality(CallsOf(k, {"run_critic"})) <= 1
            /\ CallsOf(k, {"run_dslx_tests"}) # {} => history[k].fence = "ok"
            /\ CallsOf(k, {"run_critic"}) # {} =>
                  (history[k].run = "success" /\ CallsOf(k, {"run_dslx_tests"}) # {})
            /\ CallsOf(k, {"critic_chat"}) # {} => CallsOf(k, {"run_critic"}) # {}
            /\ AllBefore(CallsOf(k, GeneratorKinds), CallsOf(k, {"run_dslx_tests"}))
            /\ AllBefore(CallsOf(k, {"run_dslx_tests"}), CallsOf(k, {"run_critic"}))
            /\ AllBefore(CallsOf(k, {"run_critic"}), CallsOf(k, {"critic_chat"})))

\* Attempt 2 has made a generator call, a toolchain run and a critic call,
\* after attempt 1 had made all three as well.
C18_Witness ==
    /\ Len(history) = 2
    /\ \A k \in {1, 2} :
          /\ CallsOf(k, GeneratorKinds) # {}
          /\ CallsOf(k, {"run_dslx_tests"}) # {}
          /\ CallsOf(k, {"critic_chat"}) # {}

----------------------------------------------------------------------------
(* Properties of strip_fences. *)

\* The positions of t that hold no whitespace.
Solid(t) == {i \in 1..Len(t) : t[i] \notin {NL, CR, SP}}

\* t without its leading and trailing whitespace.
Trimmed(t) ==
    IF Solid(t) = {} THEN <<>>
    ELSE SubSeq(t, CHOOSE i \in Solid(t) : \A j \in Solid(t) : i <= j,
                   CHOOSE i \in Solid(t) : \A j \in Solid(t) : j <= i)

\* C19 as stated: for every text that does not start with the fence
\* delimiter, strip_fences returns the text unchanged, whitespace around it
\* included, also when its first non-blank line is a fence.
\* Under FenceSpec this is violated: the text is stripped of its surrounding
\* whitespace before anything else is looked at.
C19_UnfencedUnchanged ==
    (call_result.called /\ ~(call_text # <<>> /\ call_text[1] = FENCE)) =>
        (call_result.ok /\ call_result.value = call_text)

\* C19, amended: for every text whose trimmed form (the text without its
\* leading and trailing whitespace) does not start with the fence delimiter,
\* strip_fences returns the trimmed form, which is the text itself exactly
\* when no whitespace surrounds it; a text whose trimmed form starts with the
\* delimiter is treated as fenced: strip_fences raises or returns less than
\* the text.
C19_UnfencedTrimmed ==
    call_result.called =>
        LET s == Trimmed(call_text)
        IN  IF s # <<>> /\ s[1] = FENCE
            THEN call_result.ok => Len(call_result.value) < Len(call_text)
            ELSE /\ call_result.ok
                 /\ call_result.value = s
                 /\ (call_result.value = call_text) <=> (s = call_text)

\* strip_fences has returned for a text with whitespace on both sides of
\* unfenced code: the code came back without it.
C19_Witness ==
    /\ call_result.called
    /\ call_text = <<NL, "x", SP, NL>>
    /\ call_result.ok
    /\ call_result.value = <<"x">>

\* This call's text is the opening line, the body and a closing line.
CalledOnFenced(opening, body) ==
    call_result.called /\ call_text = opening \o <<NL>> \o body \o <<NL, FENCE>>

\* C20 as stated: for every body, strip_fences applied to an opening fence
\* line, the body and a closing fence line returns exactly the body.
\* Under FenceSpec this is violated: a body holding a carriage return comes
\* back with its lines joined by line feeds.
C20_FencedBodyExact ==
    \A o \in OpeningLines, b \in Bodies :
        CalledOnFenced(o, b) => (call_result.ok /\ call_result.value = b)

\* C20, amended: for every body whose only line boundary is the line feed
\* (empty bodies, bodies holding fence lines and bodies with blank first or
\* last lines included), strip_fences applied to an opening fence line, the
\* body and a closing fence line returns exactly the body; for any body it
\* returns without raising.
C20_FencedBodyReturned ==
    \A o \in OpeningLines, b \in Bodies :
        CalledOnFenced(o, b) =>
            /\ call_result.ok
            /\ (\A i \in 1..Len(b) : b[i] # CR) => call_result.value = b

\* strip_fences has returned the body of a fenced text whose body starts
\* with a blank line and holds a fence line of its own.
C20_Witness ==
    /\ CalledOnFenced(<<FENCE, "dslx">>, <<NL, FENCE>>)
    /\ call_result.ok
    /\ call_result.value = <<NL, FENCE>>

\* The lines of t after its first line that are exactly the fence delimiter.
LaterFenceLines(t) ==
    {i \in 2..Len(SplitLines(t)) : SplitLines(t)[i] = <<FENCE>>}

\* C21 as stated: strip_fences raises for every text that starts with the
\* fence delimiter and has no later line consisting solely of the delimiter,
\* whether its opening line is bare or tagged.
\* Under FenceSpec this is violated: whitespace after a closing line that ends
\* the text is removed before the lines are looked at, so that line closes.
C21_UnclosedRaises ==
    (call_result.called /\ call_text # <<>> /\ call_text[1] = FENCE
        /\ LaterFenceLines(call_text) = {}) => ~call_result.ok

\* C21, amended: for every text whose trimmed form (the text without its
\* leading and trailing whitespace) starts with the fence delimiter and has
\* no later line consisting solely of the delimiter, whether the opening line
\* is bare or tagged, strip_fences raises ValueError with one of its two
\* fence messages and returns nothing, the raw text least of all.
C21_TrimmedUnclosedRaises ==
    LET s == Trimmed(call_text)
    IN  (call_result.called /\ s # <<>> /\ s[1] = FENCE /\ LaterFenceLines(s) = {}) =>
            /\ ~call_result.ok
            /\ call_result.error \in {MissingClosingFence, SolelyOpeningFence}
            /\ call_result.value = <<>>
            /\ call_result.value # call_text

\* strip_fences has raised for a tagged opening line followed by code that
\* no fence line closes.
C21_Witness ==
    /\ call_result.called
    /\ call_text = <<FENCE, "x", NL, "x">>
    /\ ~call_result.ok
    /\ call_result.error = MissingClosingFence

\* C22 as stated: strip_fences raises for every fenced text whose closing
\* fence line is the line right after the opening fence line.
\* Under FenceSpec this is violated: the empty block gives the empty text.
C22_EmptyBlockRaises ==
    \A o \in OpeningLines :
        (call_result.called /\ call_text = o \o <<NL, FENCE>>) => ~call_result.ok

\* C22, amended: for every fenced text whose closing fence line is the line
\* right after the opening fence line, strip_fences returns the empty text;
\* it raises "solely an opening fence" exactly when the trimmed text opens
\* with a bare fence line and no later line consists solely of the delimiter.
C22_EmptyBlockReturnsEmpty ==
    /\ \A o \in OpeningLines :
          (call_result.called /\ call_text = o \o <<NL, FENCE>>) =>
              (call_result.ok /\ call_result.value = <<>>)
    /\ call_result.called =>
          LET s == Trimmed(call_text)
          IN  (~call_result.ok /\ call_result.error = SolelyOpeningFence) <=>
                  /\ s # <<>>
                  /\ SplitLines(s)[1] = <<FENCE>>
                  /\ LaterFenceLines(s) = {}

\* strip_fences has returned the empty text for a bare opening line directly
\* followed by the closing line.
C22_Witness ==
    /\ call_result.called
    /\ call_text = <<FENCE, NL, FENCE>>
    /\ call_result.ok
    /\ call_result.value = <<>>

----------------------------------------------------------------------------
(* Properties of the directive operations. *)

\* The tokens of line j of text i, when that line is a directive line.
TokensOfLine(texts, i, j) ==
    LET line == SplitLines(texts[i].v)[j]
    IN  IF IsDirectiveLine(line) THEN ShlexSplit(DirectiveArgs(line)) ELSE <<>>

\* Where the directive tokens of texts stand: text, line, place in the line.
Occurrences(texts) ==
    UNION {UNION {{<<i, j, k>> : k \in 1..Len(TokensOfLine(texts, i, j))} :
                     j \in 1..Len(SplitLines(texts[i].v))} :
              i \in {n \in 1..Len(texts) : Truthy(texts[n])}}

TokenAt(texts, o) == TokensOfLine(texts, o[1], o[2])[o[3]]

\* o stands before p: in an earlier text, or an earlier line, or earlier in the line.
Earlier(o, p) ==
    \/ o[1] < p[1]
    \/ o[1] = p[1] /\ o[2] < p[2]
    \/ o[1] = p[1] /\ o[2] = p[2] /\ o[3] < p[3]

\* Where tok stands first.
FirstOccurrence(texts, tok) ==
    CHOOSE o \in Occurrences(texts) :
        /\ TokenAt(texts, o) = tok
        /\ \A p \in Occurrences(texts) : TokenAt(texts, p) = tok => (p = o \/ Earlier(o, p))

\* C23: extract_dslx_run_flags returns the directive tokens of all the texts
\* given, each exactly once however often it is repeated, ordered by where
\* each stands first, text by text in the order given and line by line.
C23_FirstSeenOrder ==
    (dir_call.op = "extract" /\ dir_call.ok) =>
        LET f == dir_call.flags
        IN  /\ {f[i] : i \in 1..Len(f)}
                 = {TokenAt(dir_texts, o) : o \in Occurrences(dir_texts)}
            /\ \A i, j \in 1..Len(f) :
                 i < j => /\ f[i] # f[j]
                          /\ Earlier(FirstOccurrence(dir_texts, f[i]),
                                     FirstOccurrence(dir_texts, f[j]))

\* extract_dslx_run_flags has returned two flags for a prologue and a code
\* text that hold three directive tokens, the repeated one second in the code.
C23_Witness ==
    /\ dir_call.op = "extract"
    /\ dir_call.ok
    /\ Len(dir_texts) = 2
    /\ Cardinality(Occurrences(dir_texts)) = 3
    /\ <<2, 1, 1>> \in Occurrences(dir_texts)
    /\ TokenAt(dir_texts, <<2, 1, 1>>) = "--b=2"
    /\ dir_call.flags = <<"--a=1", "--b=2">>

\* C24: applying split_dslx_run_flags_from_code or extract_dslx_run_flags to
\* the cleaned code that split_dslx_run_flags_from_code returned yields no
\* flags, and the second split returns the same cleaned code.
C24_SplitIdempotent ==
    [][(dir_call.op = "split" /\ dir_call'.op \in {"resplit", "reextract"}) =>
          /\ dir_call'.code = dir_call.cleaned
          /\ dir_call'.ok
          /\ dir_call'.flags = <<>>
          /\ dir_call'.op = "resplit" => dir_call'.cleaned = dir_call.cleaned]_vars

\* A second split has been applied to cleaned code from which the first
\* split took directive lines.
C24_Witness ==
    /\ dir_call.op = "resplit"
    /\ dir_call.code # <<>>
    /\ Len(dir_call.code) < Len(dir_texts[Len(dir_texts)].v)
    /\ LineFlags(SplitLines(dir_texts[Len(dir_texts)].v)) # <<>>

\* C25 as stated: neither directive operation ever returns a token that
\* lacks the two leading dashes; such a token is fatal in both.
\* Under FlagSpec this is violated: split_dslx_run_flags_from_code has no
\* check on its tokens and returns them.
C25_NoTokenWithoutDashes ==
    (dir_call.op # "none" /\ dir_call.ok) =>
        \A i \in 1..Len(dir_call.flags) : dir_call.flags[i] \in DashTokens

\* The lines of code the directive pattern does not match, in order.
NonDirectiveLines(code) == SelectSeq(SplitLines(code), LAMBDA line : ~IsDirectiveLine(line))

HasDirectiveLine(code) == \E j \in 1..Len(SplitLines(code)) : IsDirectiveLine(SplitLines(code)[j])

EndsWithLineFeed(t) == t # <<>> /\ t[Len(t)] = NL

\* C26 as stated: the cleaned code holds exactly the non-directive lines of
\* the input in order, ends with a newline if and only if the input did, and
\* equals the input, with no flags, when the input has no directive line.
\* Under FlagSpec this is violated: line boundaries other than the line feed
\* become line feeds, and an empty last kept line leaves a final line feed.
C26_CleanedAsStated ==
    dir_call.op = "split" =>
        /\ SplitLines(dir_call.cleaned) = NonDirectiveLines(dir_call.code)
        /\ EndsWithLineFeed(dir_call.cleaned) <=> EndsWithLineFeed(dir_call.code)
        /\ ~HasDirectiveLine(dir_call.code) =>
              (dir_call.cleaned = dir_call.code /\ dir_call.flags = <<>>)

\* C26, amended: the cleaned code is the non-directive lines of the input, in
\* order, joined by line feeds, plus one more line feed exactly when the input
\* ended with a line feed; so it ends with a line feed whenever the input
\* did, and none of its lines is a directive line.  When the input has no
\* directive line the flags are empty, and the cleaned code equals the input
\* if the input's only line boundary is the line feed.
C26_CleanedLines ==
    dir_call.op = "split" =>
        LET code == dir_call.code
            cleaned == dir_call.cleaned
        IN  /\ cleaned = JoinWith(NonDirectiveLines(code), <<NL>>)
                           \o (IF EndsWithLineFeed(code) THEN <<NL>> ELSE <<>>)
            /\ EndsWithLineFeed(code) => EndsWithLineFeed(cleaned)
            /\ ~HasDirectiveLine(cleaned)
            /\ ~HasDirectiveLine(code) =>
                  /\ dir_call.flags = <<>>
                  /\ (\A i \in 1..Len(code) : code[i] # CR) => cleaned = code

\* split_dslx_run_flags_from_code has taken the directive that ends a text
\* after an empty line: the cleaned code ends with a line feed, the input
\* did not.
C26_Witness ==
    /\ dir_call.op = "split"
    /\ dir_call.code = <<"x", NL, NL, "// dslx_run_flags:", SP, "--a=1">>
    /\ dir_call.cleaned = <<"x", NL>>
    /\ dir_call.flags = <<"--a=1">>

----------------------------------------------------------------------------
(* Properties of the toolchain runner. *)

\* C27: the RunResult of every toolchain invocation has success true if and
\* only if the exit code is zero; a nonzero code, negative ones included,
\* gives success false whatever stdout and stderr hold.
C27_SuccessIffExitZero ==
    /\ [](run_result.some => (run_result.v.success <=> run_result.v.retcode = 0))
    /\ [][run_dslx_tests /\ run_result'.some =>
            /\ run_result'.v.retcode # 0 => ~run_result'.v.success
            /\ run_result'.v.retcode = 0 => run_result'.v.success]_vars

\* A run has ended on a negative exit code with output on stdout and nothing
\* on stderr: it did not succeed.
C27_Witness ==
    /\ run_result.some
    /\ run_result.v.retcode < 0
    /\ run_result.v.stdout # <<>>
    /\ run_result.v.stderr = <<>>
    /\ ~run_result.v.success

\* A text declares the import: one of its lines is the statement, blanks
\* around it and a comment after it allowed.
Declares(t) ==
    \E j \in 1..Len(SplitLines(t)) :
        LET line == Strip(SplitLines(t)[j])
        IN  line # <<>> /\ Head(line) = IMPORT_STD

\* The payload of a text that strip_fences accepts.
Payload(t) == strip_fences(t).value

\* The program made of the prologue's lines, the import if inject says so,
\* the de-fenced candidate, the marker and the de-fenced tests.
ProgramWith(inject) ==
    LET lines == IF Truthy(sample.prologue)
                 THEN PrologueLines(Payload(sample.prologue.v)) ELSE <<>>
    IN  JoinWith(lines \o (IF inject THEN <<<<IMPORT_STD>>>> ELSE <<>>), <<NL>>)
            \o <<NL, NL>> \o Payload(generated_code)
            \o <<NL, NL, "// -- tests", NL, NL>> \o Payload(sample.tests)

\* C28 as stated: the program file is the prologue lines, then the import
\* line if and only if neither the generated code nor the prologue declares
\* it, then the de-fenced code, the marker and the de-fenced tests; when the
\* import was injected the program declares it exactly once.
\* Under RunSpec this is violated: a comment in the candidate that mentions
\* the import suppresses the injection, and a prologue's import followed by a
\* comment does not.
C28_ImportInjectedIffUndeclared ==
    full_code.some =>
        LET undeclared == /\ ~Declares(generated_code)
                          /\ ~(Truthy(sample.prologue) /\ Declares(sample.prologue.v))
        IN  /\ full_code.v = ProgramWith(undeclared)
            /\ full_code.v = ProgramWith(TRUE) =>
                  Cardinality({j \in 1..Len(SplitLines(full_code.v)) :
                                  Declares(SplitLines(full_code.v)[j])}) = 1

\* The directives of one text, as one extraction gives them.
DirectivesOf(opt) == extract_dslx_run_flags(<<opt>>).flags

\* C29 as stated, with the empty baseline: the flags of the invocation are
\* the prologue's directives followed by the generated code's directives,
\* between the standard library path and the comparison mode.
\* Under RunSpec this is violated: a directive of the generated code that the
\* prologue already gave is not repeated.
C29_FlagsConcatenated ==
    run_result.some =>
        run_result.v.command.flags
            = <<"--dslx_stdlib_path", "DSLX_STDLIB_PATH">>
                \o DirectivesOf(sample.prologue) \o DirectivesOf(Some(generated_code))
                \o <<"--compare=jit">>

\* C29, amended: the invocation is the binary, the program file of the
\* attempt, the standard library path, then the prologue's directives, then
\* those directives of the generated code that the prologue did not give,
\* then the comparison mode; there is no baseline flag, every prologue
\* directive is kept in its place, and no flag occurs twice.
C29_CommandLine ==
    run_result.some =>
        LET c == run_result.v.command
            fromPrologue == DirectivesOf(sample.prologue)
            given == {fromPrologue[i] : i \in 1..Len(fromPrologue)}
            added == SelectSeq(DirectivesOf(Some(generated_code)), LAMBDA f : f \notin given)
        IN  /\ c.binary = "DSLX_INTERPRETER_MAIN"
            /\ c.x_path = AttemptFile(attempt, ".x")
            /\ c.x_path \in files
            /\ c.flags = <<"--dslx_stdlib_path", "DSLX_STDLIB_PATH">>
                            \o fromPrologue \o added \o <<"--compare=jit">>
            /\ \A i, j \in 1..Len(c.flags) : c.flags[i] = c.flags[j] => i = j

\* The toolchain has run with two directives from the prologue and one more
\* from the generated code, whose other directive the prologue had given.
C29_Witness ==
    /\ run_result.some
    /\ DirectivesOf(sample.prologue) = <<"--b=2", "--a=1">>
    /\ DirectivesOf(Some(generated_code)) = <<"--a=1", "--warnings_as_errors=false">>
    /\ run_result.v.command.flags
         = <<"--dslx_stdlib_path", "DSLX_STDLIB_PATH", "--b=2", "--a=1",
             "--warnings_as_errors=false", "--compare=jit">>

----------------------------------------------------------------------------
(* Properties of the persisted artifacts. *)

\* The files written under attempt k's names.
FilesOf(k) == {f \in files : f.attempt = k}

\* C30 as stated: every attempt that was carried out, those that failed the
\* fence check included, has its generated code persisted under the
\* attempt's name; every attempt that ran the toolchain has exit code, stdout
\* and stderr persisted, on success and on failure; the critic's raw JSON is
\* persisted whenever the critic gave a verdict.
\* Under Spec this is violated: the only file that holds the code is the
\* program file run_dslx_tests writes, and an attempt that fails the fence
\* check never gets there.
C30_EveryAttemptPersisted ==
    \A k \in Attempts :
        Completed(k) =>
            /\ history[k].candidate.some => AttemptFile(k, ".x") \in files
            /\ history[k].run # "none" => RunOutputFiles(k) \subseteq files
            /\ history[k].critic # "none" => AttemptFile(k, "-critic.json") \in files

----------------------------------------------------------------------------
(* Properties of the failure paths. *)

\* The model is tagged as needing a reasoning effort and none is given.
EffortMissing(model, effort) ==
    model \in {"o3-mini", "o4-mini", "gpt-5.1", "gpt-5.2"} /\ effort = None

\* C31: for a model tagged as needing a reasoning effort, a generator call or
\* a critic call with the effort absent ends in an AssertionError and in no
\* outcome of a model invocation (no reply, no candidate, no API error);
\* evaluate_sample then takes no further step: it starts no other attempt
\* and returns no result.
C31_MissingEffortIsFatal ==
    /\ [][(GeneratorStep /\ EffortMissing(cfg.model, cfg.reasoning_effort)) =>
            /\ pc' = "raised"
            /\ exception' = "AssertionError"
            /\ ~history'[attempt'].candidate.some
            /\ all_generated' = all_generated
            /\ messages'[Len(messages')].role = "user"]_vars
    /\ [][(CriticChatStep /\ EffortMissing(cfg.critic_model, cfg.critic_reasoning_effort)) =>
            /\ pc' = "raised"
            /\ exception' = "AssertionError"
            /\ ~history'[attempt].critic_reply.some
            /\ critic_result' = critic_result]_vars
    /\ [][pc # "raised"]_vars
    /\ [](pc = "raised" => ~result.some)

\* The critic's effort is missing: the first attempt's run passed, the
\* critic's first chat call failed its assert, and evaluate_sample was left
\* although a second attempt was allowed.
C31_Witness ==
    /\ pc = "raised"
    /\ exception = "AssertionError"
    /\ EffortMissing(cfg.critic_model, cfg.critic_reasoning_effort)
    /\ cfg.max_retries = 2
    /\ attempt = 1
    /\ history[1].run = "success"
    /\ history[1].critic = "raised"
    /\ calls[Len(calls)].kind = "critic_chat"

----------------------------------------------------------------------------
(* Properties of the observability output. *)

\* C32 as stated: on every attempt by which two or more candidates have been
\* generated, one whose candidate fails the fence check included, the diff
\* between the candidate before and the current candidate is produced.
\* Under Spec this is violated: the diff is printed after the toolchain run
\* only, and an attempt that fails the fence check has no run.
C32_DiffOnEveryLaterAttempt ==
    \A k \in Attempts :
        (Completed(k) /\ k >= 2) =>
            history[k].diff = [some |-> TRUE, text1 |-> history[k - 1].candidate.v,
                               text2 |-> history[k].candidate.v]

----------------------------------------------------------------------------
(* Properties of what decides the control flow. *)

\* What is observed of attempt k: whether its fences were valid, whether the
\* toolchain ran and exited with zero, whether the critic ran and said ok.
Verdicts(k) ==
    [fence_valid |-> history[k].fence = "ok",
     exit_zero |-> IF history[k].run = "none" THEN "no run"
                   ELSE IF history[k].run = "success" THEN "zero" ELSE "nonzero",
     critic_ok |-> IF history[k].critic \in {"ok", "rejected"}
                   THEN history[k].critic ELSE "no critic"]

\* The stage calls that the verdicts of attempt k account for, in order.
CallsFor(k, v) ==
    <<Call(IF k = 1 THEN "generate_code" ELSE "provide_feedback", k)>>
        \o (IF v.fence_valid THEN <<Call("run_dslx_tests", k)>> ELSE <<>>)
        \o (IF v.critic_ok # "no critic" THEN <<Call("run_critic", k)>> ELSE <<>>)

RECURSIVE CallsUpTo(_)
CallsUpTo(n) == IF n = 0 THEN <<>> ELSE CallsUpTo(n - 1) \o CallsFor(n, Verdicts(n))

\* The verdicts of attempt k make it the last one, a success.
Accepts(v) == v.exit_zero = "zero" /\ v.critic_ok # "rejected"

\* The calls of the stages: the generator, the toolchain, the critic.
StageCalls ==
    SelectSeq(calls, LAMBDA c : c.kind \in {"generate_code", "provide_feedback",
                                            "run_dslx_tests", "run_critic"})

AssistantTurns(c) == Cardinality({i \in 1..Len(c) : c[i].role = "assistant"})

\* This step is a call of generate_code or provide_feedback whose chat
\* request raises.
FailedGeneratorStep == GeneratorStep /\ pc' = "raised" /\ exception' = "APIError"

\* C37: when the external model call raises during generate_code or
\* provide_feedback, the error leaves evaluate_sample as it is (no result,
\* no candidate, no further call), and the conversation has grown by exactly
\* one turn, the user turn of that call: it is not taken back and no
\* assistant turn stands for the call.
C37_FailedCallKeepsUserTurn ==
    /\ [][FailedGeneratorStep =>
            /\ messages' = Append(messages, UserTurnOf(history'[attempt'].method,
                                                       history'[attempt'].arg))
            /\ AssistantTurns(messages') = AssistantTurns(messages)
            /\ all_generated' = all_generated
            /\ generated_code' = generated_code
            /\ result' = NoResult
            /\ ~history'[attempt'].candidate.some]_vars
    /\ []((pc = "raised" /\ exception = "APIError" /\ ~history[attempt].candidate.some) =>
            /\ messages[Len(messages)].role = "user"
            /\ AssistantTurns(messages) = Len(all_generated)
            /\ Len(messages) = 2 + 2 * Len(all_generated)
            /\ calls[Len(calls)].kind \in GeneratorKinds)

\* The chat request of provide_feedback has raised in attempt 2: the
\* conversation ends with the turn of attempt 1's reply followed by the
\* user turn carrying the feedback.
C37_Witness ==
    /\ pc = "raised"
    /\ exception = "APIError"
    /\ attempt = 2
    /\ history[2].method = "provide_feedback"
    /\ ~history[2].candidate.some
    /\ Len(messages) = 4
    /\ messages[3].role = "assistant"
    /\ messages[4] = UserTurnOf("provide_feedback", history[2].arg)

\* The texts of parts occur in text c one after the other, in this order.
RECURSIVE InOrder(_, _)
InOrder(parts, c) ==
    IF parts = <<>> THEN TRUE
    ELSE \E i \in 1..(Len(c) + 1) :
            /\ i + Len(parts[1]) - 1 <= Len(c)
            /\ SubSeq(c, i, i + Len(parts[1]) - 1) = parts[1]
            /\ InOrder(Tail(parts), SubSeq(c, i + Len(parts[1]), Len(c)))

\* The candidate of attempt k without its fences.
CandidateCode(k) == DeFenced(history[k].candidate.v)

\* The parts of the critic's user turn for the candidate of attempt k.
CriticParts(k) ==
    <<sample.prompt, sample.signature, sample.requirements.v, DSLX_CRITIC_REFERENCE,
      <<FENCE, "dslx", NL>> \o CandidateCode(k) \o <<NL, FENCE>>>>

\* This step enters run_critic.
CriticEntered == pc = "check" /\ pc' = "critic"

\* C38: every run_critic invocation starts from a conversation of exactly
\* two turns, the system turn and one user turn that carries the prompt, the
\* signature, the requirements, the reference excerpt and the de-fenced
\* candidate of this attempt in that order, whatever the critic's
\* conversation of an earlier attempt held; until the first reply that does
\* not parse the conversation stays these two turns, and afterwards they stay
\* its first two turns.
C38_CriticStartsFresh ==
    /\ [][CriticEntered =>
            /\ Len(critic_messages') = 2
            /\ critic_messages'[1] = [role |-> "system", content |-> CRITIC_SYSTEM_PROMPT]
            /\ critic_messages'[2].role = "user"
            /\ InOrder(CriticParts(attempt), critic_messages'[2].content)
            /\ critic_attempt' = 1
            /\ last_text' = <<>>]_vars
    /\ [](pc = "critic" =>
            /\ Len(critic_messages) = 2 * critic_attempt
            /\ critic_messages[1].role = "system"
            /\ InOrder(CriticParts(attempt), critic_messages[2].content)
            /\ \A j \in 1..Len(critic_messages) :
                  critic_messages[j].role = "assistant" =>
                      /\ j > 2
                      /\ critic_messages[j].content \in {Strip(r) : r \in CriticReplies})

\* run_critic has just been entered in attempt 2 with a candidate other than
\* that of attempt 1, whose critic invocation had made two chat calls and
\* rejected the candidate.
C38_Witness ==
    /\ pc = "critic"
    /\ attempt = 2
    /\ critic_attempt = 1
    /\ Len(critic_messages) = 2
    /\ history[1].critic = "rejected"
    /\ Cardinality(CriticChats(1)) = 2
    /\ CandidateCode(1) # CandidateCode(2)
    /\ InOrder(CriticParts(2), critic_messages[2].content)
    /\ ~InOrder(CriticParts(1), critic_messages[2].content)

RECURSIVE KeepFirst(_)
\* f without the repetitions: each token stays where it stands first.
KeepFirst(f) ==
    IF f = <<>> THEN <<>>
    ELSE LET front == SubSeq(f, 1, Len(f) - 1)
         IN  IF \E i \in 1..Len(front) : front[i] = f[Len(f)]
             THEN KeepFirst(front)
             ELSE Append(KeepFirst(front), f[Len(f)])

\* The place of occurrence o among the directive tokens of texts.
PlaceOf(texts, o) == 1 + Cardinality({p \in Occurrences(texts) : Earlier(p, o)})

\* Every directive token of texts starts with two dashes.
AllDashed(texts) == \A o \in Occurrences(texts) : TokenAt(texts, o) \in DashTokens

\* C39: split_dslx_run_flags_from_code returns every directive token of the
\* code, repetitions included, in the order in which they stand; and for a
\* code whose directive tokens all start with two dashes,
\* extract_dslx_run_flags returns those flags with the repetitions removed,
\* each token staying at its first place.
C39_ExtractIsSplitWithoutRepeats ==
    /\ dir_call.op = "split" =>
          LET code == <<Some(dir_call.code)>>
              f == dir_call.flags
          IN  /\ Len(f) = Cardinality(Occurrences(code))
              /\ \A o \in Occurrences(code) : f[PlaceOf(code, o)] = TokenAt(code, o)
              /\ AllDashed(code) =>
                    extract_dslx_run_flags(code) = [ok |-> TRUE, flags |-> KeepFirst(f)]
    /\ (dir_call.op = "extract" /\ Len(dir_texts) = 1 /\ AllDashed(dir_texts)) =>
          /\ dir_call.ok
          /\ dir_call.flags = KeepFirst(split_dslx_run_flags_from_code(dir_texts[1].v).flags)

\* split_dslx_run_flags_from_code has returned three flags, the first of
\* them again as the third, for a code of which extract_dslx_run_flags
\* returns two.
C39_Witness ==
    /\ dir_call.op = "split"
    /\ dir_call.flags = <<"--a=1", "--b=2", "--a=1">>
    /\ AllDashed(<<Some(dir_call.code)>>)
    /\ extract_dslx_run_flags(<<Some(dir_call.code)>>).flags = <<"--a=1", "--b=2">>

----------------------------------------------------------------------------
(* Properties of the temporary directory. *)

\* C33: a directory made with delete=False still exists, with what was
\* written into it, after the block is left and after the object is
\* discarded, on both branches (cleanup() not having been called on it);
\* one made with delete=True is gone once the block is left.
C33_KeptUnlessDeleting ==
    /\ (~tmp.delete /\ ~tmp.explicit /\ tmp.stage \in {"exited", "discarded"}) => tmp.exists
    /\ (tmp.delete /\ tmp.stage = "exited") => ~tmp.exists

----------------------------------------------------------------------------
(* Properties of generate_tests. *)

\* Where the tests of the output file start.
TestStarts(out) == {p \in 1..Len(out) : out[p] = "#[test]"}

\* The number in the name of the test that starts at p: what stands before
\* the parentheses of its fn line.
NumberOfTest(out, p) ==
    LET q == CHOOSE q \in p..Len(out) :
                 out[q] = "() {" /\ \A r \in p..(q - 1) : out[r] # "() {"
    IN  CHOOSE k \in 0..Len(out) : ToString(k) = out[q - 1]

\* The text of the test that starts at p: up to the next test or the end.
TextOfTest(out, p) ==
    LET later == {q \in TestStarts(out) : q > p}
        stop == IF later = {} THEN Len(out)
                ELSE (CHOOSE q \in later : \A r \in later : q <= r) - 1
    IN  SubSeq(out, p, stop)

\* The exponent field of value h at the precision is all ones: h is an
\* infinity or a NaN.
ExponentAllOnes(h, precision) ==
    LET size == PRECISION_TO_DSLX_TYPE[precision]
        exp_size == PRECISION_TO_EXP_SIZE[precision]
    IN  (HexToInt(h) \div 2^(size - 1 - exp_size)) % 2^exp_size = 2^exp_size - 1

\* The cases testfloat_gen has yielded so far, numbered from 0.
CasesSoFar == 0..(gen.i - 1)

CaseNumbered(i) == CaseOf(gen.lines[i + 1])

\* C34: the output file holds a test for a case that was yielded if and only
\* if only_numbers is not set or none of the case's inputs and its output
\* has an all-ones exponent field at the chosen precision.
C34_TestIffNumbers ==
    \A i \in CasesSoFar :
        (\E p \in TestStarts(gen.output) : NumberOfTest(gen.output, p) = i)
            <=> (gen.args.only_numbers =>
                    \A j \in 1..Len(Operands(CaseNumbered(i))) :
                        ~ExponentAllOnes(Operands(CaseNumbered(i))[j], gen.args.precision))

\* generate_tests has returned with only_numbers set for three cases of
\* which the second, whose result alone is an infinity, has no test.
C34_Witness ==
    /\ gen.pc = "done"
    /\ gen.args.only_numbers
    /\ Len(gen.lines) = 3
    /\ {NumberOfTest(gen.output, p) : p \in TestStarts(gen.output)} = {0, 2}
    /\ \A j \in 1..Len(CaseNumbered(1).inp) :
          ~ExponentAllOnes(CaseNumbered(1).inp[j], gen.args.precision)
    /\ ExponentAllOnes(CaseNumbered(1).out, gen.args.precision)

\* C35: the tests stand in the output file in the order of the cases, each
\* numbered with the place of its case among all the cases yielded (counted
\* from 0) and holding that case's operands, so the numbers increase
\* strictly; the first test starts the file, and every later test follows
\* the closing brace of the one before after exactly one empty line.
C35_OrderNamesSpacing ==
    LET out == gen.output
    IN  /\ out # <<>> => 1 \in TestStarts(out)
        /\ gen.first_test <=> out = <<>>
        /\ \A p \in TestStarts(out) :
              /\ NumberOfTest(out, p) \in CasesSoFar
              /\ InOrder(Operands(CaseNumbered(NumberOfTest(out, p))), TextOfTest(out, p))
              /\ p > 1 => /\ p > 3
                          /\ out[p - 1] = NL
                          /\ out[p - 2] = NL
                          /\ out[p - 3] = "}"
        /\ \A p, q \in TestStarts(out) :
              p < q => NumberOfTest(out, p) < NumberOfTest(out, q)

\* generate_tests has returned with two tests, numbered 1 and 2, for three
\* cases of which the first was skipped.
C35_Witness ==
    /\ gen.pc = "done"
    /\ Len(gen.lines) = 3
    /\ Cardinality(TestStarts(gen.output)) = 2
    /\ gen.output[1] = "#[test]"
    /\ NumberOfTest(gen.output, 1) = 1
    /\ \E p \in TestStarts(gen.output) : p > 1 /\ NumberOfTest(gen.output, p) = 2

----------------------------------------------------------------------------
(* Properties of the translation loop. *)

\* The interpreter check of attempt k succeeded and, when proving is
\* enabled, so did the equivalence proof of attempt k.
AcceptedAt(k) ==
    /\ \E i \in 1..Len(v2x.checked) : v2x.checked[i] = [attempt |-> k, success |-> TRUE]
    /\ v2x.opts.prove =>
          \E i \in 1..Len(v2x.proved) : v2x.proved[i] = [attempt |-> k, success |-> TRUE]

\* The loop has been left.
LoopLeft == v2x.pc \in {"returned", "raised"}

\* C40: the loop is left only on an attempt whose interpreter check
\* succeeded and, when proving is enabled, whose proof succeeded as well;
\* every other attempt is followed by a next one whatever --max-retries
\* says, so that the loop never ends while every attempt is rejected.
C40_EndsOnlyOnAcceptedAttempt ==
    /\ [](LoopLeft => AcceptedAt(v2x.attempt))
    /\ [][(v2x.pc # "loop" /\ ~AcceptedAt(v2x.attempt)') =>
             (v2x'.pc \in {"check", "prove"}
                 \/ (v2x'.pc = "loop" /\ v2x'.attempt = v2x.attempt + 1))]_vars

====
